---- MODULE Spec2Model ----
(***************************************************************************)
(* Reflow-oven controller firmware: the active-object runtime (mailbox,    *)
(* event loop, time events) and the reflow state machine built on it.      *)
(*                                                                         *)
(* Temperatures are fixed-point integers, SCALE units per degree Celsius,  *)
(* so that the thermocouple resolution (0.25 C) and the Soak ramp step     *)
(* (55/240 C) are both whole numbers.  Sensor readings are raw hot-junction *)
(* counts (0.25 C each).                                                   *)
(***************************************************************************)
EXTENDS Integers, Sequences, FiniteSets, TLC

VARIABLES
    reflow_ao,      \* private data of the Reflow_Active instance
    time_events,    \* registry of time events: <<[sig, timeout, reload]>>
    queue,          \* the active object's mailbox (event references, FIFO)
    msg_count,      \* capacity the mailbox was created with
    loop_pc,        \* event-loop thread: "none" | "init" | "wait" | "halt"
    tick,           \* TimeEvent_tick callback: [pc, i, tmp]
    pid_it,         \* reflow_pid_iteration callback: [pc, ok, hj]
    last,           \* observation: the last handler invocation
    obs,            \* observation: the last sample tick / the last post
    hist            \* observation: counters and logs of the run

vars == <<reflow_ao, time_events, queue, msg_count, loop_pc, tick, pid_it,
          last, obs, hist>>

----------------------------------------------------------------------------
(* Bounds of the exploration                                               *)

MaxCmds == 2        \* console commands issued in one run
MaxPidTicks == 3    \* PID sample ticks in one run
TickWindow == 1     \* countdowns above this are crossed by TimeEvent_elapse
MaxCap == 3         \* largest mailbox capacity tried by the runtime harness
MaxPosts == 4       \* posts made by the producers of the runtime harness
MaxT == 3           \* largest timeout armed by the time-event harness
MaxR == 2           \* largest reload armed by the time-event harness
MaxTicks == 7       \* heartbeat ticks after one arm in the time-event harness
MaxArms == 2        \* arm/disarm calls in the time-event harness

----------------------------------------------------------------------------
(* Enumerations of the source                                              *)

RESET_STATE == 0
PREHEAT_STATE == 1
SOAK_STATE == 2
RAMPUP_STATE == 3
PEAK_STATE == 4
COOLDOWN_STATE == 5
NUM_REFLOW_STATES == 6

TRAN_STATUS == 0
HANDLED_STATUS == 1
IGNORE_STATUS == 2
INIT_STATUS == 3

INIT_SIG == 0
ENTRY_SIG == 1
START_REFLOW_SIG == 2
REACH_TIME_SIG == 3
REACH_TEMP_SIG == 4
STOP_REFLOW_SIG == 5
NUM_REFLOW_SIGS == 6

REACHTEMP == 0
REACHTIME == 1

MAX_OK == 0
MAX_OPEN == 3

\* 0xFFFFFFFF.  TLC's integers are 32-bit signed, so its largest
\* integer stands for it; every other value of the model is far smaller.
UINT32_MAX == (2 ^ 30 - 1) * 2 + 1

\* v - 1 and v + 1 in 32-bit unsigned arithmetic
U32Dec(v) == IF v = 0 THEN UINT32_MAX ELSE v - 1

U32Inc(v) == IF v = UINT32_MAX THEN 0 ELSE v + 1

SCALE == 4 * 240

Phases == PREHEAT_STATE .. COOLDOWN_STATE

\* reflow_ao.reflow_phases, indexed from 0 as in the source (state - 1).
reflow_phases ==
    [i \in 0 .. 4 |->
        CASE i = 0 -> [phase_type |-> REACHTEMP, reach_temp |-> 125, reach_time |-> 0]
          [] i = 1 -> [phase_type |-> REACHTIME, reach_temp |-> 180, reach_time |-> 120000]
          [] i = 2 -> [phase_type |-> REACHTEMP, reach_temp |-> 225, reach_time |-> 0]
          [] i = 3 -> [phase_type |-> REACHTIME, reach_temp |-> 225, reach_time |-> 5000]
          [] i = 4 -> [phase_type |-> REACHTEMP, reach_temp |-> 35, reach_time |-> 0]]

\* reflow_pid_cfg: gains as integers, Ts as the number of samples per second.
pid_cfg == [Kp |-> 10, Ki |-> 0, Kd |-> 0, tau |-> 1, TsInv |-> 2,
            out_max |-> 4095 * SCALE, out_min |-> 0]

\* Hot-junction counts the sensor is taken to return (0.25 C per count):
\* 0 C, 30 C, 35.5 C, 40 C, 124 C, 125 C, 225.75 C.
Readings == {0, 120, 142, 160, 496, 500, 903}

\* Outcomes of one thermocouple transaction: a fault, or a reading.
SensorOutcomes ==
    {[err |-> MAX_OPEN, hj |-> 0]} \cup {[err |-> MAX_OK, hj |-> c] : c \in Readings}

\* What an out-of-bounds read of reflow_phases[-1] may yield.
OOBPhases ==
    {[phase_type |-> t, reach_temp |-> r, reach_time |-> 0] :
        t \in {REACHTEMP, REACHTIME}, r \in {0, 35}}

----------------------------------------------------------------------------
(* PID controller memory                                                   *)

PID_Cleared == [integral |-> 0, prev_error |-> 0, derivative |-> 0,
                prev_measurement |-> 0, out |-> 0]

PID_Reset(pid) == PID_Cleared

SAMESIGN(x, y) == (x <= 0) = (y <= 0)

\* Variant: the integral is accumulated also while the output is pinned.
PID_Calculate_nofreeze(cfg, pid, setpoint, measurement) ==
    LET error == setpoint - measurement
        integral == pid.integral
                    + (cfg.Ki * (error + pid.prev_error)) \div (2 * cfg.TsInv)
        raw == cfg.Kp * error + integral
        out == IF raw > cfg.out_max THEN cfg.out_max
               ELSE IF raw < cfg.out_min THEN cfg.out_min
               ELSE raw
    IN  [integral |-> integral, prev_error |-> error, derivative |-> 0,
         prev_measurement |-> measurement, out |-> out]

\* One controller iteration with the parameters cfg stored in the
\* controller; setpoint and measurement in SCALE units.
PID_Calculate_cfg(cfg, pid, setpoint, measurement) ==
    LET error == setpoint - measurement
        proportional == cfg.Kp * error
        integral ==
            IF (pid.out = cfg.out_max \/ pid.out = cfg.out_min)
               /\ SAMESIGN(pid.out, error)
            THEN pid.integral
            ELSE pid.integral
                 + (cfg.Ki * (error + pid.prev_error)) \div (2 * cfg.TsInv)
        derivative ==
            0 - ((2 * cfg.Kd * (measurement - pid.prev_measurement) * cfg.TsInv
                  + (2 * cfg.tau * cfg.TsInv - 1) * pid.derivative)
                 \div (2 * cfg.tau * cfg.TsInv + 1))
        raw == proportional + integral + derivative
        out == IF raw > cfg.out_max THEN cfg.out_max
               ELSE IF raw < cfg.out_min THEN cfg.out_min
               ELSE raw
    IN  [integral |-> integral, prev_error |-> error, derivative |-> derivative,
         prev_measurement |-> measurement, out |-> out]

\* The reflow controller's iteration.
PID_Calculate(pid, setpoint, measurement) ==
    PID_Calculate_cfg(pid_cfg, pid, setpoint, measurement)

----------------------------------------------------------------------------
(* Reflow state machine: the cells of Reflow_state_table.  Each cell takes *)
(* the actor's data and the outcome rd of the sensor transaction it may    *)
(* make, and yields the new data, its status, the hardware/OS calls it     *)
(* made, and the arm/disarm it applied to reflow_time_evt.                 *)

NoTE == [op |-> "none", timeout |-> 0, reload |-> 0]

Result(ao, stat, calls, te) == [ao |-> ao, stat |-> stat, calls |-> calls, te |-> te]

\* Variant: the error code of the transaction is not looked at.
readTemperature_noerr(rd) == TRUE

readTemperature(rd) == rd.err = MAX_OK

\* (uint32_t)current_temp of a non-negative reading of hj counts.
TruncTemp(hj) == hj \div 4

Reflow_reset_INIT(ao, rd) ==
    Result([ao EXCEPT !.state = RESET_STATE], INIT_STATUS, <<>>, NoTE)

\* Variant: the Reset entry action leaves the PID memory as it is.
Reflow_reset_ENTRY_nopid(ao, rd) ==
    Result([ao EXCEPT !.ccr = 0, !.pwm_on = FALSE, !.pid_timer = FALSE],
           HANDLED_STATUS,
           <<"Reflow_reset_ENTRY", "SET_COMPARE", "PWM_Stop",
             "osTimerStop", "TimeEvent_disarm">>,
           [op |-> "disarm", timeout |-> 0, reload |-> 0])

Reflow_reset_ENTRY(ao, rd) ==
    Result([ao EXCEPT !.ccr = 0, !.pwm_on = FALSE, !.pid = PID_Reset(ao.pid),
                      !.pid_timer = FALSE],
           HANDLED_STATUS,
           <<"Reflow_reset_ENTRY", "SET_COMPARE", "PWM_Stop", "PID_Reset",
             "osTimerStop", "TimeEvent_disarm">>,
           [op |-> "disarm", timeout |-> 0, reload |-> 0])

\* Variant: the Preheat entry action forgets to start the sample timer.
Reflow_preheat_ENTRY_notimer(ao, rd) ==
    Result([ao EXCEPT !.pwm_on = TRUE,
                      !.setpoint = reflow_phases[PREHEAT_STATE - 1].reach_temp * SCALE],
           HANDLED_STATUS,
           <<"Reflow_preheat_ENTRY", "PWM_Start">>, NoTE)

\* osTimerStart(pid_timer_id, (uint32_t)(Ts * 1000)): pid_period is the
\* period in milliseconds the sample timer was last started with.
Reflow_preheat_ENTRY(ao, rd) ==
    Result([ao EXCEPT !.pwm_on = TRUE,
                      !.setpoint = reflow_phases[PREHEAT_STATE - 1].reach_temp * SCALE,
                      !.pid_timer = TRUE,
                      !.pid_period = 1000 \div pid_cfg.TsInv],
           HANDLED_STATUS,
           <<"Reflow_preheat_ENTRY", "PWM_Start", "osTimerStart">>, NoTE)

\* Variant: the ramp step is computed per second, not per sample.
Reflow_soak_ENTRY_persec(ao, rd) ==
    Result([ao EXCEPT !.step_size =
                ((reflow_phases[SOAK_STATE - 1].reach_temp
                  - reflow_phases[PREHEAT_STATE - 1].reach_temp) * SCALE)
                \div (reflow_phases[SOAK_STATE - 1].reach_time \div 1000)],
           HANDLED_STATUS,
           <<"Reflow_soak_ENTRY", "TimeEvent_arm">>,
           [op |-> "arm", timeout |-> reflow_phases[SOAK_STATE - 1].reach_time,
            reload |-> 0])

Reflow_soak_ENTRY(ao, rd) ==
    Result([ao EXCEPT !.step_size =
                ((reflow_phases[SOAK_STATE - 1].reach_temp
                  - reflow_phases[PREHEAT_STATE - 1].reach_temp) * SCALE)
                \div ((reflow_phases[SOAK_STATE - 1].reach_time \div 1000) * pid_cfg.TsInv)],
           HANDLED_STATUS,
           <<"Reflow_soak_ENTRY", "TimeEvent_arm">>,
           [op |-> "arm", timeout |-> reflow_phases[SOAK_STATE - 1].reach_time,
            reload |-> 0])

Reflow_rampup_ENTRY(ao, rd) ==
    Result([ao EXCEPT !.setpoint = reflow_phases[RAMPUP_STATE - 1].reach_temp * SCALE],
           HANDLED_STATUS, <<"Reflow_rampup_ENTRY">>, NoTE)

Reflow_peak_ENTRY(ao, rd) ==
    Result([ao EXCEPT !.step_size = 0],
           HANDLED_STATUS,
           <<"Reflow_peak_ENTRY", "TimeEvent_arm">>,
           [op |-> "arm", timeout |-> reflow_phases[PEAK_STATE - 1].reach_time,
            reload |-> 0])

Reflow_cooldown_ENTRY(ao, rd) ==
    Result([ao EXCEPT !.setpoint = reflow_phases[COOLDOWN_STATE - 1].reach_temp * SCALE],
           HANDLED_STATUS, <<"Reflow_cooldown_ENTRY">>, NoTE)

Reflow_reset_START(ao, rd) ==
    IF ~readTemperature(rd)
    THEN Result(ao, HANDLED_STATUS, <<"readTemperature">>, NoTE)
    ELSE IF TruncTemp(rd.hj) > reflow_phases[COOLDOWN_STATE - 1].reach_temp
    THEN Result(ao, HANDLED_STATUS, <<"readTemperature">>, NoTE)
    ELSE Result([ao EXCEPT !.state = PREHEAT_STATE], TRAN_STATUS,
                <<"readTemperature">>, NoTE)

Reflow_preheat_REACHTEMP(ao, rd) ==
    Result([ao EXCEPT !.state = SOAK_STATE], TRAN_STATUS, <<>>, NoTE)

\* Variant: the end of Soak goes straight to Peak.
Reflow_soak_REACHTIME_skip(ao, rd) ==
    Result([ao EXCEPT !.state = PEAK_STATE], TRAN_STATUS, <<>>, NoTE)

Reflow_soak_REACHTIME(ao, rd) ==
    Result([ao EXCEPT !.state = RAMPUP_STATE], TRAN_STATUS, <<>>, NoTE)

Reflow_rampup_REACHTEMP(ao, rd) ==
    Result([ao EXCEPT !.state = PEAK_STATE], TRAN_STATUS, <<>>, NoTE)

Reflow_peak_REACHTIME(ao, rd) ==
    Result([ao EXCEPT !.state = COOLDOWN_STATE], TRAN_STATUS, <<>>, NoTE)

Reflow_cooldown_REACHTEMP(ao, rd) ==
    Result([ao EXCEPT !.state = RESET_STATE], TRAN_STATUS, <<>>, NoTE)

\* Variant: the STOP cell leaves the sample timer to the Reset entry action.
Reflow_STOP_nostop(ao, rd) ==
    Result([ao EXCEPT !.state = RESET_STATE], TRAN_STATUS, <<>>, NoTE)

Reflow_STOP(ao, rd) ==
    Result([ao EXCEPT !.pid_timer = FALSE, !.state = RESET_STATE], TRAN_STATUS,
           <<"osTimerStop">>, NoTE)

Reflow_ignore(ao, rd) == Result(ao, IGNORE_STATUS, <<>>, NoTE)

\* Variant: the table laid out without the ENTRY column, so that the cell of
\* START sits at index 1 and the entry actions at index 2.
Reflow_state_table_noentrycol(state, sig, ao, rd) ==
    CASE sig = INIT_SIG ->
            IF state = RESET_STATE THEN Reflow_reset_INIT(ao, rd) ELSE Reflow_ignore(ao, rd)
      [] sig = START_REFLOW_SIG ->
            (CASE state = RESET_STATE -> Reflow_reset_ENTRY(ao, rd)
               [] state = PREHEAT_STATE -> Reflow_preheat_ENTRY(ao, rd)
               [] state = SOAK_STATE -> Reflow_soak_ENTRY(ao, rd)
               [] state = RAMPUP_STATE -> Reflow_rampup_ENTRY(ao, rd)
               [] state = PEAK_STATE -> Reflow_peak_ENTRY(ao, rd)
               [] state = COOLDOWN_STATE -> Reflow_cooldown_ENTRY(ao, rd))
      [] sig = ENTRY_SIG ->
            IF state = RESET_STATE THEN Reflow_reset_START(ao, rd) ELSE Reflow_ignore(ao, rd)
      [] sig = REACH_TIME_SIG ->
            (CASE state = SOAK_STATE -> Reflow_soak_REACHTIME(ao, rd)
               [] state = PEAK_STATE -> Reflow_peak_REACHTIME(ao, rd)
               [] OTHER -> Reflow_ignore(ao, rd))
      [] sig = REACH_TEMP_SIG ->
            (CASE state = PREHEAT_STATE -> Reflow_preheat_REACHTEMP(ao, rd)
               [] state = RAMPUP_STATE -> Reflow_rampup_REACHTEMP(ao, rd)
               [] state = COOLDOWN_STATE -> Reflow_cooldown_REACHTEMP(ao, rd)
               [] OTHER -> Reflow_ignore(ao, rd))
      [] sig = STOP_REFLOW_SIG ->
            IF state = RESET_STATE THEN Reflow_ignore(ao, rd) ELSE Reflow_STOP(ao, rd)

\* Reflow_state_table[state][sig](ao, evt)
Reflow_state_table(state, sig, ao, rd) ==
    CASE sig = INIT_SIG ->
            IF state = RESET_STATE THEN Reflow_reset_INIT(ao, rd) ELSE Reflow_ignore(ao, rd)
      [] sig = ENTRY_SIG ->
            (CASE state = RESET_STATE -> Reflow_reset_ENTRY(ao, rd)
               [] state = PREHEAT_STATE -> Reflow_preheat_ENTRY(ao, rd)
               [] state = SOAK_STATE -> Reflow_soak_ENTRY(ao, rd)
               [] state = RAMPUP_STATE -> Reflow_rampup_ENTRY(ao, rd)
               [] state = PEAK_STATE -> Reflow_peak_ENTRY(ao, rd)
               [] state = COOLDOWN_STATE -> Reflow_cooldown_ENTRY(ao, rd))
      [] sig = START_REFLOW_SIG ->
            IF state = RESET_STATE THEN Reflow_reset_START(ao, rd) ELSE Reflow_ignore(ao, rd)
      [] sig = REACH_TIME_SIG ->
            (CASE state = SOAK_STATE -> Reflow_soak_REACHTIME(ao, rd)
               [] state = PEAK_STATE -> Reflow_peak_REACHTIME(ao, rd)
               [] OTHER -> Reflow_ignore(ao, rd))
      [] sig = REACH_TEMP_SIG ->
            (CASE state = PREHEAT_STATE -> Reflow_preheat_REACHTEMP(ao, rd)
               [] state = RAMPUP_STATE -> Reflow_rampup_REACHTEMP(ao, rd)
               [] state = COOLDOWN_STATE -> Reflow_cooldown_REACHTEMP(ao, rd)
               [] OTHER -> Reflow_ignore(ao, rd))
      [] sig = STOP_REFLOW_SIG ->
            IF state = RESET_STATE THEN Reflow_ignore(ao, rd) ELSE Reflow_STOP(ao, rd)

\* Variant: the dispatcher runs the entry action of the current state after
\* every cell, whatever status the cell returned.
reflow_evt_handler_entryalways(ao, sig, rd) ==
    LET r1 == Reflow_state_table(ao.state, sig, ao, rd)
        r2 == Reflow_state_table(r1.ao.state, ENTRY_SIG, r1.ao, rd)
    IN  Result(r2.ao, r1.stat, r1.calls \o r2.calls,
               IF r2.te.op = "none" THEN r1.te ELSE r2.te)

\* Variant: the dispatcher runs the entry action after a transition only, not
\* after the initial transition.
reflow_evt_handler_initnoentry(ao, sig, rd) ==
    LET r1 == Reflow_state_table(ao.state, sig, ao, rd)
    IN  IF r1.stat = TRAN_STATUS
        THEN LET r2 == Reflow_state_table(r1.ao.state, ENTRY_SIG, r1.ao, rd)
             IN  Result(r2.ao, r1.stat, r1.calls \o r2.calls,
                        IF r2.te.op = "none" THEN r1.te ELSE r2.te)
        ELSE r1

\* The dispatcher: the cell for (state, signal), then the entry action of the
\* state the actor is in when the cell reported a (initial) transition.
reflow_evt_handler(ao, sig, rd) ==
    LET r1 == Reflow_state_table(ao.state, sig, ao, rd)
    IN  IF r1.stat = TRAN_STATUS \/ r1.stat = INIT_STATUS
        THEN LET r2 == Reflow_state_table(r1.ao.state, ENTRY_SIG, r1.ao, rd)
             IN  Result(r2.ao, r1.stat, r1.calls \o r2.calls,
                        IF r2.te.op = "none" THEN r1.te ELSE r2.te)
        ELSE r1

----------------------------------------------------------------------------
(* Events and the mailbox                                                  *)

initEvt == [name |-> "initEvt", sig |-> INIT_SIG]

start_evt == [name |-> "start_evt", sig |-> START_REFLOW_SIG]

stop_evt == [name |-> "stop_evt", sig |-> REACH_TEMP_SIG]

reachtemp_evt == [name |-> "reachtemp_evt", sig |-> REACH_TEMP_SIG]

\* The Event base of the time event registered at index i.
TimeEvt(te, i) == [name |-> "time_evt", sig |-> te[i].sig]

\* A mailbox entry: the event reference, and (observation only) who posted
\* it and the number of the post.
Entry(evt, src, n) == [evt |-> evt, src |-> src, n |-> n]

REFLOW_MSG_COUNT == 5

\* Variant: the put goes to the front of the queue.
Active_post_lifo(q, cap, e) ==
    IF Len(q) < cap
    THEN [queue |-> <<e>> \o q, err |-> "MOD_OK"]
    ELSE [queue |-> q, err |-> "MOD_ERR_TIMEOUT"]

\* Variant: a put on a full queue drops the oldest event to make room.
Active_post_overwrite(q, cap, e) ==
    IF Len(q) < cap
    THEN [queue |-> Append(q, e), err |-> "MOD_OK"]
    ELSE IF q = <<>>
         THEN [queue |-> q, err |-> "MOD_ERR_TIMEOUT"]
         ELSE [queue |-> Append(Tail(q), e), err |-> "MOD_ERR_TIMEOUT"]

\* Variant: the constructor binds whatever it is given.
Active_ctor_nocheck(ao, evt_handler) ==
    IF ao = <<>>
    THEN [ao |-> ao, err |-> "MOD_ERR_ARG"]
    ELSE [ao |-> <<[ao[1] EXCEPT !.evt_handler = evt_handler]>>, err |-> "MOD_OK"]

\* Active_ctor.  The pointer ao is <<>> when null and <<r>> when it points to
\* the Active record r; the result holds the record as the call left it.
Active_ctor(ao, evt_handler) ==
    IF evt_handler = "NULL" \/ ao = <<>>
    THEN [ao |-> ao, err |-> "MOD_ERR_ARG"]
    ELSE [ao |-> <<[ao[1] EXCEPT !.evt_handler = evt_handler]>>, err |-> "MOD_OK"]

\* osMessageQueuePut with zero timeout on a mailbox of capacity cap
\* (cap = 0: no mailbox was created, the put is refused).
Active_post(q, cap, e) ==
    IF Len(q) < cap
    THEN [queue |-> Append(q, e), err |-> "MOD_OK"]
    ELSE [queue |-> q, err |-> "MOD_ERR_TIMEOUT"]

\* Variant: the INIT dispatch is skipped when events are already waiting.
Active_event_loop_noinit(pc, q) ==
    IF pc = "init" /\ q = <<>>
    THEN [evt |-> Entry(initEvt, "Active_event_loop", 0), queue |-> q, pc |-> "wait"]
    ELSE [evt |-> Head(q), queue |-> Tail(q), pc |-> "wait"]

\* One step of the event-loop thread: the INIT dispatch when it first runs,
\* afterwards the dispatch of the event at the head of the mailbox.
Active_event_loop(pc, q) ==
    IF pc = "init"
    THEN [evt |-> Entry(initEvt, "Active_event_loop", 0), queue |-> q, pc |-> "wait"]
    ELSE [evt |-> Head(q), queue |-> Tail(q), pc |-> "wait"]

\* The thread can take a step: it has not run yet, or its blocking receive
\* has an event to return.
LoopReady == loop_pc = "init" \/ (loop_pc = "wait" /\ queue # <<>>)

----------------------------------------------------------------------------
(* Time events                                                             *)

TimeEvent_arm(te, i, timeout, reload) ==
    [te EXCEPT ![i].timeout = timeout, ![i].reload = reload]

\* Variant: disarm leaves the countdown alone.
TimeEvent_disarm_noop(te, i) == te

TimeEvent_disarm(te, i) == [te EXCEPT ![i].timeout = 0]

\* The arm/disarm a handler invocation applied to reflow_time_evt (index 1).
ApplyTE(te, op) ==
    CASE op.op = "arm" -> TimeEvent_arm(te, 1, op.timeout, op.reload)
      [] op.op = "disarm" -> TimeEvent_disarm(te, 1)
      [] OTHER -> te

TickIdle == [pc |-> "idle", i |-> 0, tmp |-> 0]

\* for (...; ++i): the next record, or the end of the callback.
TickAdvance(te, i) ==
    IF i < Len(te) THEN [pc |-> "test", i |-> i + 1, tmp |-> 0] ELSE TickIdle

\* The value a racy read of the countdown may yield: the value in memory, or
\* the one the callback still holds in a register.
TimeoutRead(te, tk) == {te[tk.i].timeout, tk.tmp}

\* Variant: the countdown is not decremented.
TickDec_nodec(v) == v

\* t->timeout - 1 in 32-bit unsigned arithmetic
TickDec(v) == U32Dec(v)

\* Variant: every tick of an armed event fires.
TickFires_always(v) == TRUE

\* if (t->timeout == 0U)
TickFires(v) == v = 0

\* Variant: the reload value is not written back.
TickReload_keep(r) == 0

\* t->timeout = t->reload
TickReload(r) == r

\* The heartbeat callback and the PID sample callback are both run by the
\* timer service task, one at a time.
TimerTaskFree == tick.pc = "idle" /\ pid_it.pc \in {"idle", "done"}

\* TimeEvent_tick, entry: i = 0
TimeEvent_tick_begin ==
    /\ TimerTaskFree
    /\ Len(time_events) > 0
    /\ tick' = [pc |-> "test", i |-> 1, tmp |-> 0]
    /\ UNCHANGED <<time_events, queue>>

\* if (t->timeout > 0U)
TimeEvent_tick_test ==
    /\ tick.pc = "test"
    /\ LET v == time_events[tick.i].timeout
       IN  tick' = IF v > 0 THEN [tick EXCEPT !.pc = "dec", !.tmp = v]
                   ELSE TickAdvance(time_events, tick.i)
    /\ UNCHANGED <<time_events, queue>>

\* t->timeout = t->timeout - 1
TimeEvent_tick_dec ==
    /\ tick.pc = "dec"
    /\ \E v \in TimeoutRead(time_events, tick) :
          /\ time_events' = [time_events EXCEPT ![tick.i].timeout = TickDec(v)]
          /\ tick' = [tick EXCEPT !.pc = "chk", !.tmp = TickDec(v)]
    /\ UNCHANGED queue

\* if (t->timeout == 0U)
TimeEvent_tick_chk ==
    /\ tick.pc = "chk"
    /\ \E v \in TimeoutRead(time_events, tick) :
          tick' = IF TickFires(v) THEN [tick EXCEPT !.pc = "post", !.tmp = 0]
                  ELSE TickAdvance(time_events, tick.i)
    /\ UNCHANGED <<time_events, queue>>

\* Active_post(t->ao, &(t->base))
TimeEvent_tick_post ==
    /\ tick.pc = "post"
    /\ queue' = Active_post(queue, msg_count,
                            Entry(TimeEvt(time_events, tick.i), "TimeEvent_tick", 0)).queue
    /\ tick' = [tick EXCEPT !.pc = "rld"]
    /\ UNCHANGED time_events

\* t->timeout = t->reload
TimeEvent_tick_rld ==
    /\ tick.pc = "rld"
    /\ time_events' = [time_events EXCEPT
                          ![tick.i].timeout = TickReload(time_events[tick.i].reload)]
    /\ tick' = TickAdvance(time_events, tick.i)
    /\ UNCHANGED queue

\* The countdowns that are running.
Armed(te) == {i \in 1 .. Len(te) : te[i].timeout > 0}

MinTimeout(te) == CHOOSE m \in {te[i].timeout : i \in Armed(te)} :
                      \A i \in Armed(te) : m <= te[i].timeout

\* k whole heartbeat ticks during which nothing else runs and no countdown
\* reaches zero: every running countdown drops by k.
TimeEvent_elapse ==
    /\ TimerTaskFree
    /\ Armed(time_events) # {}
    /\ MinTimeout(time_events) > TickWindow
    /\ LET k == MinTimeout(time_events) - TickWindow
       IN  time_events' = [i \in 1 .. Len(time_events) |->
                              IF i \in Armed(time_events)
                              THEN [time_events[i] EXCEPT !.timeout = @ - k]
                              ELSE time_events[i]]
    /\ UNCHANGED <<tick, queue>>

----------------------------------------------------------------------------
(* The reflow actor: event loop, console commands, PID sample callback     *)

NoDispatch == [sig |-> NUM_REFLOW_SIGS, src |-> "none", prev |-> RESET_STATE,
               stat |-> IGNORE_STATUS, calls |-> <<>>, rd |-> [err |-> MAX_OK, hj |-> 0]]

PidIdle == [pc |-> "idle", ok |-> TRUE, hj |-> 0, inphase |-> RESET_STATE,
            posts |-> <<>>, ramped |-> FALSE, calc |-> FALSE, wrote |-> FALSE]

\* The Active base of an actor that was constructed and started.
ActiveStarted == [thread_id |-> "thread", queue_id |-> "queue",
                  evt_handler |-> "reflow_evt_handler"]

\* reflow_ao after reflow_init and reflow_start: static storage, PID_Init,
\* timer created, base constructed and started.
ReflowInit == [reflow_base |-> ActiveStarted, state |-> RESET_STATE, pwm_on |-> FALSE, ccr |-> 0, pid |-> PID_Cleared,
               pid_timer |-> FALSE, pid_period |-> 0, step_size |-> 0, setpoint |-> 0]

\* The sensor transactions a handler invocation can see: only the START cell
\* of Reset reads the sensor.
SensorFor(state, sig) ==
    IF state = RESET_STATE /\ sig = START_REFLOW_SIG
    THEN SensorOutcomes
    ELSE {[err |-> MAX_OK, hj |-> 0]}

\* The event-loop thread dispatches one event to reflow_evt_handler, which
\* runs to completion.
Reflow_dispatch ==
    /\ LoopReady
    /\ LET s == Active_event_loop(loop_pc, queue)
       IN  /\ loop_pc' = s.pc
           /\ queue' = s.queue
           /\ \E rd \in SensorFor(reflow_ao.state, s.evt.evt.sig) :
                 LET r == reflow_evt_handler(reflow_ao, s.evt.evt.sig, rd)
                 IN  /\ reflow_ao' = r.ao
                     /\ time_events' = ApplyTE(time_events, r.te)
                     /\ last' = [sig |-> s.evt.evt.sig, src |-> s.evt.src,
                                 prev |-> reflow_ao.state, stat |-> r.stat,
                                 calls |-> r.calls, rd |-> rd]
    /\ UNCHANGED <<msg_count, tick, pid_it, obs, hist>>

\* `reflow start` on the console
reflow_start_cmd ==
    /\ hist.cmds < MaxCmds
    /\ queue' = Active_post(queue, msg_count, Entry(start_evt, "reflow_start_cmd", 0)).queue
    /\ hist' = [hist EXCEPT !.cmds = @ + 1]
    /\ UNCHANGED <<reflow_ao, time_events, msg_count, loop_pc, tick, pid_it, last, obs>>

\* `reflow stop` on the console
reflow_stop_cmd ==
    /\ hist.cmds < MaxCmds
    /\ queue' = Active_post(queue, msg_count, Entry(stop_evt, "reflow_stop_cmd", 0)).queue
    /\ hist' = [hist EXCEPT !.cmds = @ + 1]
    /\ UNCHANGED <<reflow_ao, time_events, msg_count, loop_pc, tick, pid_it, last, obs>>

\* The phase record reflow_phases[state - 1]; in Reset the index is -1 and
\* the read is out of bounds.
PhaseOf(state) == IF state \in Phases THEN {reflow_phases[state - 1]} ELSE OOBPhases

\* Variant: the leeway test with inclusive bounds.
BandHit_pm1(reach_temp, hj) ==
    reach_temp >= TruncTemp(hj) - 1 /\ reach_temp <= TruncTemp(hj) + 1

\* reach_temp > (uint32_t)temp_reading - 1U && reach_temp < (uint32_t)temp_reading + 1U
BandHit(reach_temp, hj) ==
    /\ reach_temp > U32Dec(TruncTemp(hj))
    /\ reach_temp < U32Inc(TruncTemp(hj))

\* Variant: the callback returns after a failed read.
AfterFault_return == "done"

\* What the callback does after a failed read: it goes on to the phase test.
AfterFault == "phase"

\* reflow_pid_iteration, the read: readTemperature, and the post on failure
reflow_pid_iteration_read ==
    /\ TimerTaskFree
    /\ reflow_ao.pid_timer
    /\ hist.pidticks < MaxPidTicks
    /\ \E rd \in SensorOutcomes :
          IF readTemperature(rd)
          THEN /\ pid_it' = [PidIdle EXCEPT !.pc = "phase", !.hj = rd.hj]
               /\ UNCHANGED queue
          ELSE /\ pid_it' = [PidIdle EXCEPT !.pc = AfterFault, !.ok = FALSE,
                                            !.posts = <<stop_evt>>]
               /\ queue' = Active_post(queue, msg_count,
                                       Entry(stop_evt, "pid_fault", 0)).queue
    /\ hist' = [hist EXCEPT !.pidticks = @ + 1]
    /\ UNCHANGED <<reflow_ao, time_events, msg_count, loop_pc, tick, last, obs>>

\* if (reflow_phases[state - 1].phase_type == REACHTEMP) ... else setpoint += step_size
reflow_pid_iteration_phase ==
    /\ pid_it.pc = "phase"
    /\ \E ph \in PhaseOf(reflow_ao.state) :
          IF ph.phase_type = REACHTEMP
          THEN /\ pid_it' = [pid_it EXCEPT !.pc = "band", !.inphase = reflow_ao.state]
               /\ UNCHANGED reflow_ao
          ELSE /\ pid_it' = [pid_it EXCEPT !.pc = "calc", !.inphase = reflow_ao.state,
                                           !.ramped = reflow_ao.step_size # 0]
               /\ reflow_ao' = [reflow_ao EXCEPT !.setpoint = @ + reflow_ao.step_size]
    /\ UNCHANGED <<time_events, queue, msg_count, loop_pc, tick, last, obs, hist>>

\* the band test against reflow_phases[state - 1].reach_temp, and the post
reflow_pid_iteration_band ==
    /\ pid_it.pc = "band"
    /\ \E ph \in PhaseOf(reflow_ao.state) :
          IF BandHit(ph.reach_temp, pid_it.hj)
          THEN /\ queue' = Active_post(queue, msg_count,
                                       Entry(reachtemp_evt, "pid_band", 0)).queue
               /\ pid_it' = [pid_it EXCEPT !.pc = "calc",
                                           !.posts = Append(@, reachtemp_evt)]
          ELSE /\ pid_it' = [pid_it EXCEPT !.pc = "calc"]
               /\ UNCHANGED queue
    /\ UNCHANGED <<reflow_ao, time_events, msg_count, loop_pc, tick, last, obs, hist>>

\* PID_Calculate and __HAL_TIM_SET_COMPARE(..., (uint16_t)pwm_value)
reflow_pid_iteration_calc ==
    /\ pid_it.pc = "calc"
    /\ LET pid == PID_Calculate(reflow_ao.pid, reflow_ao.setpoint,
                                pid_it.hj * (SCALE \div 4))
       IN  reflow_ao' = [reflow_ao EXCEPT !.pid = pid,
                                          !.ccr = (pid.out \div SCALE) % (2 ^ 16)]
    /\ pid_it' = [pid_it EXCEPT !.pc = "done", !.calc = TRUE, !.wrote = TRUE]
    /\ UNCHANGED <<time_events, queue, msg_count, loop_pc, tick, last, obs, hist>>

\* What the heartbeat callback leaves alone in the reflow system.
TickFrame == UNCHANGED <<reflow_ao, msg_count, loop_pc, pid_it, last, obs, hist>>

\* The heartbeat callback in the reflow system, statement by statement.
\* Single ticks are followed once the countdown is within TickWindow.
Reflow_tick_begin ==
    /\ Armed(time_events) # {} => MinTimeout(time_events) <= TickWindow
    /\ TimeEvent_tick_begin
    /\ TickFrame

Reflow_tick_test == TimeEvent_tick_test /\ TickFrame

Reflow_tick_dec == TimeEvent_tick_dec /\ TickFrame

Reflow_tick_chk == TimeEvent_tick_chk /\ TickFrame

Reflow_tick_post == TimeEvent_tick_post /\ TickFrame

Reflow_tick_rld == TimeEvent_tick_rld /\ TickFrame

Reflow_elapse == TimeEvent_elapse /\ TickFrame

NoObs == [n |-> 0]

\* After reflow_init and reflow_start: the event-loop thread exists and has
\* not run yet.
Init ==
    /\ reflow_ao = ReflowInit
    /\ time_events = <<[sig |-> REACH_TIME_SIG, timeout |-> 0, reload |-> 0]>>
    /\ queue = <<>>
    /\ msg_count = REFLOW_MSG_COUNT
    /\ loop_pc = "init"
    /\ tick = TickIdle
    /\ pid_it = PidIdle
    /\ last = NoDispatch
    /\ obs = NoObs
    /\ hist = [cmds |-> 0, pidticks |-> 0]

Next ==
    \/ Reflow_dispatch
    \/ reflow_start_cmd
    \/ reflow_stop_cmd
    \/ reflow_pid_iteration_read
    \/ reflow_pid_iteration_phase
    \/ reflow_pid_iteration_band
    \/ reflow_pid_iteration_calc
    \/ Reflow_tick_begin
    \/ Reflow_tick_test
    \/ Reflow_tick_dec
    \/ Reflow_tick_chk
    \/ Reflow_tick_post
    \/ Reflow_tick_rld
    \/ Reflow_elapse

Spec == Init /\ [][Next]_vars

----------------------------------------------------------------------------
(* The state machine under any sequence of dispatched signals: the handler *)
(* is invoked with every signal the dispatcher's assertion admits, while   *)
(* the heartbeat callback runs the time event the entry actions arm.       *)

SM_dispatch ==
    /\ loop_pc = "wait"
    /\ \E sig \in 0 .. NUM_REFLOW_SIGS - 1 :
       \E rd \in SensorFor(reflow_ao.state, sig) :
          LET r == reflow_evt_handler(reflow_ao, sig, rd)
          IN  /\ reflow_ao' = r.ao
              /\ time_events' = ApplyTE(time_events, r.te)
              /\ last' = [sig |-> sig, src |-> "any", prev |-> reflow_ao.state,
                          stat |-> r.stat, calls |-> r.calls, rd |-> rd]
    /\ UNCHANGED <<queue, msg_count, loop_pc, tick, pid_it, obs, hist>>

\* The INIT dispatch that starts the actor.
SM_init == loop_pc = "init" /\ Reflow_dispatch

NextSM ==
    \/ SM_init
    \/ SM_dispatch
    \/ Reflow_tick_begin
    \/ Reflow_tick_test
    \/ Reflow_tick_dec
    \/ Reflow_tick_chk
    \/ Reflow_tick_post
    \/ Reflow_tick_rld
    \/ Reflow_elapse

SpecSM == Init /\ [][NextSM]_vars

----------------------------------------------------------------------------
(* The reflow system with a console that keeps sending `reflow start`: the *)
(* commands are not counted, so the mailbox can be full at any moment.     *)
(* No `reflow stop` is sent.                                               *)

\* `reflow start` on the console, any number of times
Busy_start_cmd ==
    /\ queue' = Active_post(queue, msg_count, Entry(start_evt, "reflow_start_cmd", 0)).queue
    /\ UNCHANGED <<reflow_ao, time_events, msg_count, loop_pc, tick, pid_it, last, obs, hist>>

NextBusy ==
    \/ Reflow_dispatch
    \/ Busy_start_cmd
    \/ reflow_pid_iteration_read
    \/ reflow_pid_iteration_phase
    \/ reflow_pid_iteration_band
    \/ reflow_pid_iteration_calc
    \/ Reflow_tick_begin
    \/ Reflow_tick_test
    \/ Reflow_tick_dec
    \/ Reflow_tick_chk
    \/ Reflow_tick_post
    \/ Reflow_tick_rld
    \/ Reflow_elapse

SpecBusy == Init /\ [][NextBusy]_vars


----------------------------------------------------------------------------
(* The active-object runtime on its own: one actor whose handler records   *)
(* what it is given, and producers that post from any thread.  Each post   *)
(* is numbered so that the order of acceptance can be observed.            *)

Producers == {"console", "pid_timer", "heartbeat"}

\* First user signal: START_REFLOW_SIG = USER_SIG, column 2 of the state table.
USER_SIG == 2

\* The events the actor's handler was given from the mailbox.
Delivered(d) == SelectSeq(d, LAMBDA e : e.src # "Active_event_loop")

\* Handlers a caller may pass to the constructor.
Handlers == {"NULL", "reflow_evt_handler", "other_handler"}

InitAO ==
    /\ reflow_ao = [ReflowInit EXCEPT !.reflow_base =
                        [thread_id |-> "NULL", queue_id |-> "NULL",
                         evt_handler |-> "NULL"]]
    /\ time_events = <<>>
    /\ queue = <<>>
    /\ msg_count = 0
    /\ loop_pc = "none"
    /\ tick = TickIdle
    /\ pid_it = PidIdle
    /\ last = NoDispatch
    /\ hist = [cmds |-> 0, pidticks |-> 0]
    /\ obs = [posts |-> 0, accepted |-> <<>>, dispatched |-> <<>>, initAt |-> 0,
              full |-> FALSE, err |-> "MOD_OK", before |-> <<>>, snapAt |-> 0,
              ctor |-> [ao |-> "none", h |-> "NULL", err |-> "MOD_OK"]]

AOFrame == UNCHANGED <<reflow_ao, time_events, tick, pid_it, last, hist>>

\* A caller constructs the actor, before it is started: with the actor or a
\* null pointer, and with any handler.
AO_ctor ==
    /\ loop_pc = "none"
    /\ \E a \in {"NULL", "ao"}, h \in Handlers :
          LET r == Active_ctor(IF a = "ao" THEN <<reflow_ao.reflow_base>> ELSE <<>>, h)
          IN  /\ reflow_ao' = IF a = "ao" THEN [reflow_ao EXCEPT !.reflow_base = r.ao[1]]
                              ELSE reflow_ao
              /\ obs' = [obs EXCEPT !.ctor = [ao |-> a, h |-> h, err |-> r.err]]
    /\ UNCHANGED <<queue, msg_count, loop_pc>>
    /\ UNCHANGED <<time_events, tick, pid_it, last, hist>>

\* Active_start on a constructed actor: the thread and a mailbox of the
\* requested capacity exist; the scheduler has not run the thread yet.
Active_start ==
    /\ loop_pc = "none"
    /\ reflow_ao.reflow_base.evt_handler # "NULL"
    /\ \E cap \in 1 .. MaxCap : msg_count' = cap
    /\ loop_pc' = "init"
    /\ reflow_ao' = [reflow_ao EXCEPT !.reflow_base.thread_id = "thread",
                                      !.reflow_base.queue_id = "queue"]
    /\ UNCHANGED <<queue, obs>>
    /\ UNCHANGED <<time_events, tick, pid_it, last, hist>>

\* A producer posts its next event.
AO_post ==
    /\ obs.posts < MaxPosts
    /\ \E p \in Producers :
          LET e == Entry([name |-> p, sig |-> USER_SIG], p, obs.posts + 1)
              r == Active_post(queue, msg_count, e)
          IN  /\ queue' = r.queue
              /\ obs' = [obs EXCEPT
                    !.posts = @ + 1,
                    !.accepted = IF r.err = "MOD_OK" THEN Append(@, e) ELSE @,
                    !.full = (loop_pc # "none" /\ Len(queue) = msg_count),
                    !.err = r.err,
                    !.before = IF r.err = "MOD_OK" THEN @ ELSE queue,
                    !.snapAt = IF r.err = "MOD_OK" THEN @
                               ELSE Len(Delivered(obs.dispatched))]
    /\ UNCHANGED <<msg_count, loop_pc>>
    /\ AOFrame

\* The event-loop thread gives one event to the handler.
AO_dispatch ==
    /\ LoopReady
    /\ LET s == Active_event_loop(loop_pc, queue)
       IN  /\ loop_pc' = s.pc
           /\ queue' = s.queue
           /\ obs' = [obs EXCEPT !.dispatched = Append(@, s.evt),
                                 !.initAt = IF loop_pc = "init" THEN obs.posts ELSE @]
    /\ UNCHANGED msg_count
    /\ AOFrame

NextAO ==
    \/ AO_ctor
    \/ Active_start
    \/ AO_post
    \/ AO_dispatch

SpecAO == InitAO /\ [][NextAO]_vars

\* The event-loop thread blocks only in the mailbox receive and is scheduled
\* whenever it has something to dispatch.
FairAO == SpecAO /\ WF_vars(AO_dispatch)

----------------------------------------------------------------------------
(* The time-event multiplexer on its own: one registered time event whose  *)
(* owner arms and disarms it from its thread while the heartbeat callback  *)
(* runs statement by statement.  obs counts, since the last arm, the ticks *)
(* started (n) and the posts made (posts).                                 *)

InitTE ==
    /\ reflow_ao = ReflowInit
    /\ time_events = <<[sig |-> REACH_TIME_SIG, timeout |-> 0, reload |-> 0]>>
    /\ queue = <<>>
    /\ msg_count = REFLOW_MSG_COUNT
    /\ loop_pc = "wait"
    /\ tick = TickIdle
    /\ pid_it = PidIdle
    /\ last = NoDispatch
    /\ hist = [cmds |-> 0, pidticks |-> 0]
    /\ obs = [n |-> 0, posts |-> 0, T |-> 0, R |-> 0, clean |-> FALSE,
              disarmed |-> TRUE, late |-> FALSE, arms |-> 0,
              accepted |-> 0, delivered |-> 0]

TEFrame == UNCHANGED <<reflow_ao, msg_count, loop_pc, pid_it, last, hist>>

\* The owner arms the time event (inside osKernelLock).
TE_arm ==
    /\ obs.arms < MaxArms
    /\ \E T \in 1 .. MaxT, R \in 0 .. MaxR :
          /\ time_events' = TimeEvent_arm(time_events, 1, T, R)
          /\ obs' = [obs EXCEPT !.n = 0, !.posts = 0, !.T = T, !.R = R,
                                !.clean = (tick.pc = "idle"), !.disarmed = FALSE,
                                !.arms = @ + 1]
    /\ UNCHANGED <<queue, tick>>
    /\ TEFrame

\* The owner disarms the time event (inside osKernelLock).
TE_disarm ==
    /\ obs.arms < MaxArms
    /\ time_events' = TimeEvent_disarm(time_events, 1)
    /\ obs' = [obs EXCEPT !.clean = FALSE, !.disarmed = TRUE, !.arms = @ + 1]
    /\ UNCHANGED <<queue, tick>>
    /\ TEFrame

TE_tick_begin ==
    /\ obs.n < MaxTicks
    /\ TimeEvent_tick_begin
    /\ obs' = [obs EXCEPT !.n = @ + 1]
    /\ TEFrame

TE_tick_test == TimeEvent_tick_test /\ UNCHANGED obs /\ TEFrame

TE_tick_dec == TimeEvent_tick_dec /\ UNCHANGED obs /\ TEFrame

TE_tick_chk == TimeEvent_tick_chk /\ UNCHANGED obs /\ TEFrame

TE_tick_post ==
    /\ TimeEvent_tick_post
    /\ obs' = [obs EXCEPT !.posts = @ + 1,
                          !.late = @ \/ obs.disarmed,
                          !.accepted = IF Len(queue) < msg_count THEN @ + 1 ELSE @]
    /\ TEFrame

TE_tick_rld == TimeEvent_tick_rld /\ UNCHANGED obs /\ TEFrame

\* The owner's event loop takes the event at the head of its mailbox.
TE_dispatch ==
    /\ loop_pc = "wait" /\ queue # <<>>
    /\ queue' = Active_event_loop(loop_pc, queue).queue
    /\ obs' = [obs EXCEPT !.delivered = @ + 1]
    /\ UNCHANGED <<time_events, tick>>
    /\ TEFrame

NextTE ==
    \/ TE_arm
    \/ TE_disarm
    \/ TE_tick_begin
    \/ TE_tick_test
    \/ TE_tick_dec
    \/ TE_tick_chk
    \/ TE_tick_post
    \/ TE_tick_rld
    \/ TE_dispatch

SpecTE == InitTE /\ [][NextTE]_vars

----------------------------------------------------------------------------
(* Active_start statement by statement, with either allocation able to     *)
(* fail, called before or after the scheduler was started.  obs.pc is the  *)
(* caller's position in Active_start, obs.kernel whether threads are being *)
(* scheduled, obs.asserts which of the two Active_start bodies of the      *)
(* repository is built: the one that asserts or the one that returns.      *)

InitStart ==
    /\ reflow_ao = [ReflowInit EXCEPT !.reflow_base =
                        [thread_id |-> "NULL", queue_id |-> "NULL",
                         evt_handler |-> "reflow_evt_handler"]]
    /\ time_events = <<>>
    /\ queue = <<>>
    /\ msg_count = 0
    /\ loop_pc = "none"
    /\ tick = TickIdle
    /\ pid_it = PidIdle
    /\ last = NoDispatch
    /\ hist = [cmds |-> 0, pidticks |-> 0]
    /\ obs \in {[pc |-> "idle", kernel |-> k, asserts |-> a, posts |-> 0,
                 dispatched |-> <<>>, nullget |-> FALSE] :
                    k \in BOOLEAN, a \in BOOLEAN}

StartFrame == UNCHANGED <<time_events, tick, pid_it, last, hist>>

\* ao->thread_id = osThreadNew(Active_event_loop, ao, thread_attr)
Start_osThreadNew ==
    /\ obs.pc = "idle"
    /\ \E ok \in BOOLEAN :
          /\ reflow_ao' = [reflow_ao EXCEPT !.reflow_base.thread_id =
                              IF ok THEN "thread" ELSE "NULL"]
          /\ loop_pc' = IF ok THEN "init" ELSE "none"
    /\ obs' = [obs EXCEPT !.pc = "thread"]
    /\ UNCHANGED <<queue, msg_count>>
    /\ StartFrame

\* ao->queue_id = osMessageQueueNew(msg_count, sizeof(Event *), queue_attr)
Start_osMessageQueueNew ==
    /\ obs.pc = "thread"
    /\ \E ok \in BOOLEAN, cap \in 1 .. MaxCap :
          /\ reflow_ao' = [reflow_ao EXCEPT !.reflow_base.queue_id =
                              IF ok THEN "queue" ELSE "NULL"]
          /\ msg_count' = IF ok THEN cap ELSE 0
    /\ obs' = [obs EXCEPT !.pc = "queue"]
    /\ UNCHANGED <<queue, loop_pc>>
    /\ StartFrame

\* ASSERT(ao->thread_id != NULL && ao->queue_id != NULL); return MOD_OK;
\* A failed assertion is fatal: nothing runs after it.
Start_ASSERT ==
    /\ obs.pc = "queue" /\ obs.asserts
    /\ obs' = [obs EXCEPT !.pc =
                  IF reflow_ao.reflow_base.thread_id # "NULL"
                     /\ reflow_ao.reflow_base.queue_id # "NULL"
                  THEN "ok" ELSE "fatal"]
    /\ UNCHANGED <<reflow_ao, queue, msg_count, loop_pc>>
    /\ StartFrame

\* if (ao->thread_id == NULL || ao->queue_id == NULL) return MOD_ERR;
\* return MOD_OK;   reflow_start drops the returned value.
Start_return ==
    /\ obs.pc = "queue" /\ ~obs.asserts
    /\ obs' = [obs EXCEPT !.pc =
                  IF reflow_ao.reflow_base.thread_id = "NULL"
                     \/ reflow_ao.reflow_base.queue_id = "NULL"
                  THEN "err" ELSE "ok"]
    /\ UNCHANGED <<reflow_ao, queue, msg_count, loop_pc>>
    /\ StartFrame

\* The scheduler is started after the initialisation returned.
Start_osKernelStart ==
    /\ obs.pc \in {"ok", "err"} /\ ~obs.kernel
    /\ obs' = [obs EXCEPT !.kernel = TRUE]
    /\ UNCHANGED <<reflow_ao, queue, msg_count, loop_pc>>
    /\ StartFrame

\* The event-loop thread is scheduled: it exists, threads are being
\* scheduled and no assertion has stopped the system.
LoopCanRun ==
    /\ reflow_ao.reflow_base.thread_id = "thread"
    /\ obs.kernel
    /\ obs.pc # "fatal"

\* One step of the event-loop thread: the INIT dispatch, then receives.  A
\* receive on a mailbox that was never created returns an error at once;
\* the loop logs it and still calls ao->evt_handler(ao, evt) with the local
\* evt the receive did not set.  Its value is indeterminate: the pointer of
\* the previous iteration or anything else (src "unset" marks the call).
Start_loop ==
    /\ LoopCanRun
    /\ \/ /\ LoopReady
          /\ LET s == Active_event_loop(loop_pc, queue)
             IN  /\ loop_pc' = s.pc
                 /\ queue' = s.queue
                 /\ obs' = [obs EXCEPT !.dispatched = Append(@, s.evt)]
       \/ /\ loop_pc = "wait"
          /\ reflow_ao.reflow_base.queue_id = "NULL"
          /\ ~obs.nullget
          /\ \E e \in {obs.dispatched[Len(obs.dispatched)].evt,
                       [name |-> "indeterminate", sig |-> NUM_REFLOW_SIGS]} :
                obs' = [obs EXCEPT !.nullget = TRUE,
                                   !.dispatched = Append(@, Entry(e, "unset", 0))]
          /\ UNCHANGED <<queue, loop_pc>>
    /\ UNCHANGED <<reflow_ao, msg_count>>
    /\ StartFrame

\* A producer posts to the actor.
Start_post ==
    /\ obs.pc # "fatal"
    /\ obs.posts < MaxPosts
    /\ \E p \in Producers :
          queue' = Active_post(queue, msg_count,
                               Entry([name |-> p, sig |-> USER_SIG], p, obs.posts + 1)).queue
    /\ obs' = [obs EXCEPT !.posts = @ + 1]
    /\ UNCHANGED <<reflow_ao, msg_count, loop_pc>>
    /\ StartFrame

NextStart ==
    \/ Start_osThreadNew
    \/ Start_osMessageQueueNew
    \/ Start_ASSERT
    \/ Start_return
    \/ Start_osKernelStart
    \/ Start_loop
    \/ Start_post

SpecStart == InitStart /\ [][NextStart]_vars

----------------------------------------------------------------------------
(* The time-event registry: TimeEvent_ctor called any number of times      *)
(* before multitasking starts.  time_events holds the records the slots    *)
(* below num_time_events refer to.                                         *)

\* static TimeEvent *time_events[10];
ARRAY_SIZE_time_events == 10

\* Variant: the record is registered without the capacity assertion.
TimeEvent_ctor_nocheck(te, n, sig, timer_ok) ==
    [time_events |-> Append(te, [sig |-> sig, timeout |-> 0, reload |-> 0]),
     num_time_events |-> n + 1,
     timer_inst |-> "timer",
     fatal |-> FALSE]

\* The record is initialised; the first call creates and starts the
\* heartbeat timer; the record is registered if a slot is free.  Either
\* failed assertion is fatal and happens before the registration.
TimeEvent_ctor(te, n, sig, timer_ok) ==
    IF n = 0 /\ ~timer_ok
    THEN [time_events |-> te, num_time_events |-> n, timer_inst |-> "NULL",
          fatal |-> TRUE]
    ELSE IF ~(n < ARRAY_SIZE_time_events)
    THEN [time_events |-> te, num_time_events |-> n, timer_inst |-> "timer",
          fatal |-> TRUE]
    ELSE [time_events |-> Append(te, [sig |-> sig, timeout |-> 0, reload |-> 0]),
          num_time_events |-> n + 1,
          timer_inst |-> "timer",
          fatal |-> FALSE]

InitReg ==
    /\ reflow_ao = ReflowInit
    /\ time_events = <<>>
    /\ queue = <<>>
    /\ msg_count = 0
    /\ loop_pc = "none"
    /\ tick = TickIdle
    /\ pid_it = PidIdle
    /\ last = NoDispatch
    /\ hist = [cmds |-> 0, pidticks |-> 0]
    /\ obs = [num_time_events |-> 0, timer_inst |-> "NULL", fatal |-> FALSE,
              full |-> FALSE, before |-> <<>>]

\* A caller constructs one more time event.
Reg_ctor ==
    /\ ~obs.fatal
    /\ \E sig \in {REACH_TIME_SIG, REACH_TEMP_SIG}, timer_ok \in BOOLEAN :
          LET r == TimeEvent_ctor(time_events, obs.num_time_events, sig, timer_ok)
          IN  /\ time_events' = r.time_events
              /\ obs' = [num_time_events |-> r.num_time_events,
                         timer_inst |-> r.timer_inst,
                         fatal |-> r.fatal,
                         full |-> obs.num_time_events >= ARRAY_SIZE_time_events,
                         before |-> time_events]
    /\ UNCHANGED <<reflow_ao, queue, msg_count, loop_pc, tick, pid_it, last, hist>>

NextReg == Reg_ctor

SpecReg == InitReg /\ [][NextReg]_vars

----------------------------------------------------------------------------
(* The three reflow console commands called with any argument vector, and  *)
(* the actor dispatching what they post.  obs records the last call.       *)

\* First arguments a user may type.
Argv0 == {"*", "pid", "PID", "profile", "state", "bogus"}

\* strcasecmp(a, b) == 0 on the arguments above
strcasecmp0(a, b) == (IF a = "PID" THEN "pid" ELSE a) = b

\* The status reflow_get_params_cmd returns; -1 is returned as uint32_t.
reflow_get_params_cmd(argc, argv0) ==
    IF argc # 1 THEN UINT32_MAX
    ELSE IF \E k \in {"*", "pid", "profile", "state"} : strcasecmp0(argv0, k) THEN 0
    ELSE UINT32_MAX

InitCmd ==
    /\ reflow_ao = ReflowInit
    /\ time_events = <<[sig |-> REACH_TIME_SIG, timeout |-> 0, reload |-> 0]>>
    /\ queue = <<>>
    /\ msg_count = REFLOW_MSG_COUNT
    /\ loop_pc = "init"
    /\ tick = TickIdle
    /\ pid_it = PidIdle
    /\ last = NoDispatch
    /\ hist = [cmds |-> 0, pidticks |-> 0]
    /\ obs = [cmd |-> "none", argc |-> 0, argv0 |-> "*", ret |-> 0, posted |-> FALSE]

CmdFrame == UNCHANGED <<reflow_ao, time_events, msg_count, loop_pc, tick, pid_it, last>>

\* `reflow get ...`: displays, posts nothing.
Cmd_get ==
    /\ hist.cmds < MaxCmds
    /\ \E argc \in 0 .. 2, argv0 \in Argv0 :
          obs' = [cmd |-> "get", argc |-> argc, argv0 |-> argv0,
                  ret |-> reflow_get_params_cmd(argc, argv0), posted |-> FALSE]
    /\ hist' = [hist EXCEPT !.cmds = @ + 1]
    /\ UNCHANGED queue
    /\ CmdFrame

\* `reflow start ...`: argc and argv are not looked at.
Cmd_start ==
    /\ hist.cmds < MaxCmds
    /\ \E argc \in 0 .. 2, argv0 \in Argv0 :
          LET r == Active_post(queue, msg_count, Entry(start_evt, "reflow_start_cmd", 0))
          IN  /\ queue' = r.queue
              /\ obs' = [cmd |-> "start", argc |-> argc, argv0 |-> argv0,
                         ret |-> 0, posted |-> r.err = "MOD_OK"]
    /\ hist' = [hist EXCEPT !.cmds = @ + 1]
    /\ CmdFrame

\* `reflow stop ...`: argc and argv are not looked at.
Cmd_stop ==
    /\ hist.cmds < MaxCmds
    /\ \E argc \in 0 .. 2, argv0 \in Argv0 :
          LET r == Active_post(queue, msg_count, Entry(stop_evt, "reflow_stop_cmd", 0))
          IN  /\ queue' = r.queue
              /\ obs' = [cmd |-> "stop", argc |-> argc, argv0 |-> argv0,
                         ret |-> 0, posted |-> r.err = "MOD_OK"]
    /\ hist' = [hist EXCEPT !.cmds = @ + 1]
    /\ CmdFrame

NextCmd ==
    \/ Cmd_get
    \/ Cmd_start
    \/ Cmd_stop
    \/ Reflow_dispatch

SpecCmd == InitCmd /\ [][NextCmd]_vars

----------------------------------------------------------------------------
(* The PID controller on its own: PID_Init with one of a few parameter     *)
(* sets, then PID_Calculate called with any setpoints and measurements.    *)
(* obs keeps the controller memory before the last call, the error of that *)
(* call and the number of consecutive calls that found the output pinned   *)
(* with an error of its sign.                                              *)

\* Parameter sets given to PID_Init: with and without integral gain, with a
\* symmetric output range and with one that starts at zero.
PidCfgs ==
    {[Kp |-> 1, Ki |-> ki, Kd |-> 0, tau |-> 1, TsInv |-> 2,
      out_max |-> 10, out_min |-> lo] : ki \in {0, 4}, lo \in {0 - 10, 0}}

PidSetpoints == {0, 8, 20}

PidMeasurements == {0, 4, 30}

InitPID ==
    /\ reflow_ao = [ReflowInit EXCEPT !.pid = PID_Cleared]
    /\ time_events = <<>>
    /\ queue = <<>>
    /\ msg_count = 0
    /\ loop_pc = "none"
    /\ tick = TickIdle
    /\ pid_it = PidIdle
    /\ last = NoDispatch
    /\ hist = [cmds |-> 0, pidticks |-> 0]
    /\ obs \in {[cfg |-> c, before |-> PID_Cleared, error |-> 0, pinned |-> FALSE,
                 run |-> 0] : c \in PidCfgs}

PID_call ==
    /\ hist.pidticks < MaxPidTicks
    /\ \E setpoint \in PidSetpoints, measurement \in PidMeasurements :
          LET pid == reflow_ao.pid
              error == setpoint - measurement
              pinned == (pid.out = obs.cfg.out_max \/ pid.out = obs.cfg.out_min)
                        /\ ((pid.out > 0 /\ error > 0) \/ (pid.out <= 0 /\ error <= 0))
          IN  /\ reflow_ao' = [reflow_ao EXCEPT !.pid =
                                  PID_Calculate_cfg(obs.cfg, pid, setpoint, measurement)]
              /\ obs' = [obs EXCEPT !.before = pid, !.error = error,
                                    !.pinned = pinned,
                                    !.run = IF pinned THEN @ + 1 ELSE 0]
    /\ hist' = [hist EXCEPT !.pidticks = @ + 1]
    /\ UNCHANGED <<time_events, queue, msg_count, loop_pc, tick, pid_it, last>>

NextPID == PID_call

SpecPID == InitPID /\ [][NextPID]_vars

----------------------------------------------------------------------------
(* The console and the command actor's mailbox.  The console owns two      *)
(* command-line buffers and one static cmd_evt; every Enter key posts the  *)
(* address of that one event.  obs.cmd_buf and obs.buf_id are the console, *)
(* obs.cmd_line the buffer cmd_evt.cmd_line points to (<<>>: NULL),        *)
(* obs.posted the line each post was made with and obs.processed the line  *)
(* the handler found when it was given each post.                          *)

\* Command lines a user may type.
Lines == {"reflow start", "reflow stop", "log get"}

BUF1_ID == 0

BUF2_ID == 1

switch_bufs(buf_id) == IF buf_id = BUF1_ID THEN BUF2_ID ELSE BUF1_ID

InitCon ==
    /\ reflow_ao = ReflowInit
    /\ time_events = <<>>
    /\ queue = <<>>
    /\ msg_count \in 1 .. MaxCap
    /\ loop_pc = "wait"
    /\ tick = TickIdle
    /\ pid_it = PidIdle
    /\ last = NoDispatch
    /\ hist = [cmds |-> 0, pidticks |-> 0]
    /\ obs = [cmd_buf |-> [b \in {BUF1_ID, BUF2_ID} |-> ""], buf_id |-> BUF1_ID,
              cmd_line |-> <<>>,
              posts |-> 0, posted |-> <<>>, processed |-> <<>>]

ConFrame == UNCHANGED <<reflow_ao, time_events, msg_count, loop_pc, tick, pid_it, last, hist>>

\* console_run reads a line and the Enter key: the line is terminated in the
\* current buffer, post_cmd_event points cmd_evt at that buffer and posts
\* &cmd_evt, and the buffers are switched.
Con_enter ==
    /\ obs.posts < MaxPosts
    /\ \E line \in Lines :
          LET r == Active_post(queue, msg_count,
                               Entry([name |-> "cmd_evt", sig |-> USER_SIG],
                                     "console", obs.posts + 1))
          IN  /\ queue' = r.queue
              /\ obs' = [obs EXCEPT !.cmd_buf[obs.buf_id] = line,
                                    !.cmd_line = <<obs.buf_id>>,
                                    !.buf_id = switch_bufs(@),
                                    !.posts = @ + 1,
                                    !.posted = Append(@, line)]
    /\ ConFrame

\* The command actor's event loop gives the head of the mailbox to its
\* handler, which executes the line the event points to.
Con_dispatch ==
    /\ loop_pc = "wait" /\ queue # <<>>
    /\ LET s == Active_event_loop(loop_pc, queue)
       IN  /\ queue' = s.queue
           /\ obs' = [obs EXCEPT !.processed =
                         Append(@, [n |-> s.evt.n, line |-> obs.cmd_buf[obs.cmd_line[1]]])]
    /\ ConFrame

NextCon ==
    \/ Con_enter
    \/ Con_dispatch

SpecCon == InitCon /\ [][NextCon]_vars

----------------------------------------------------------------------------
(* The MAX31855K driver's fault decoder: any sequence of 32-bit words read *)
(* from the device.  obs.data32 is the last word, obs.err the driver's     *)
(* error value and obs.before the error value the decoder found.           *)

MAX_SHORT_VCC == 1

MAX_SHORT_GND == 2

MAX_ZEROS == 4

MAX_SPI_DMA_FAIL == 5

\* Words the device may return: hot-junction counts in D31..D18, the fault
\* bit D16 and the three fault bits D2..D0.
Words ==
    {hj * 2 ^ 18 + d16 * 2 ^ 16 + fault :
        hj \in {0, 120, 500}, d16 \in {0, 1}, fault \in 0 .. 7}

\* The switch on data32 & 0x7: no case ends in a break, so each case runs
\* the assignments of the cases below it; other values assign nothing.
MAX31855K_error_check(err, data32) ==
    IF data32 = 0 THEN MAX_ZEROS
    ELSE IF (data32 \div 2 ^ 16) % 2 = 1
    THEN LET fault == data32 % 8
         IN  CASE fault = 4 -> MAX_OPEN
               [] fault = 2 -> MAX_OPEN
               [] fault = 1 -> MAX_OPEN
               [] OTHER -> err
    ELSE MAX_OK

\* MAX31855K_Init sets the SPI handle and pins only: the error value is
\* whatever the caller's object held.
InitMax ==
    /\ reflow_ao = ReflowInit
    /\ time_events = <<>>
    /\ queue = <<>>
    /\ msg_count = 0
    /\ loop_pc = "none"
    /\ tick = TickIdle
    /\ pid_it = PidIdle
    /\ last = NoDispatch
    /\ hist = [cmds |-> 0, pidticks |-> 0]
    /\ obs \in {[data32 |-> 0, err |-> e, before |-> e, reads |-> 0] :
                    e \in MAX_OK .. MAX_SPI_DMA_FAIL}

\* One blocking read: the four bytes are assembled and checked.
MAX31855K_RxBlocking ==
    /\ \E data32 \in Words :
          obs' = [data32 |-> data32,
                  err |-> MAX31855K_error_check(obs.err, data32),
                  before |-> obs.err,
                  reads |-> 1]
    /\ UNCHANGED <<reflow_ao, time_events, queue, msg_count, loop_pc, tick,
                   pid_it, last, hist>>

NextMax == MAX31855K_RxBlocking

SpecMax == InitMax /\ [][NextMax]_vars

----------------------------------------------------------------------------
(* The UART transmit path: one thread calling uart_putc, statement by      *)
(* statement, and the interrupt handler, which runs to completion between  *)
(* any two statements of the thread.  obs.uart holds the ring buffer and   *)
(* the TXE interrupt enable bit, obs.tdr the characters written to the     *)
(* data register, obs.accepted the characters whose put index was stored.  *)

\* Size of the transmit ring buffer (it holds one character less).
UART_TX_BUF_SIZE == 3

\* Saturating increment of a 16-bit counter.
INC_SAT_U16(a) == IF a < 65535 THEN a + 1 ELSE a

\* The characters between the get and the put index, oldest first.
TxPending(u) ==
    [k \in 1 .. ((u.tx_buf_put_idx - u.tx_buf_get_idx + UART_TX_BUF_SIZE) % UART_TX_BUF_SIZE)
        |-> u.tx_buf[(u.tx_buf_get_idx + k - 1) % UART_TX_BUF_SIZE]]

\* Variant: the character is written but the get index is not advanced.
write_tdr_noadvance(u, tdr) ==
    IF u.tx_buf_get_idx = u.tx_buf_put_idx
    THEN [uart |-> [u EXCEPT !.txeie = FALSE], tdr |-> tdr]
    ELSE [uart |-> u, tdr |-> Append(tdr, u.tx_buf[u.tx_buf_get_idx])]

\* Variant: the interrupt is disabled after every character written.
write_tdr_disable(u, tdr) ==
    IF u.tx_buf_get_idx = u.tx_buf_put_idx
    THEN [uart |-> [u EXCEPT !.txeie = FALSE], tdr |-> tdr]
    ELSE [uart |-> [u EXCEPT !.tx_buf_get_idx = (@ + 1) % UART_TX_BUF_SIZE,
                             !.txeie = FALSE],
          tdr |-> Append(tdr, u.tx_buf[u.tx_buf_get_idx])]

\* Nothing to transmit: the TXE interrupt is disabled; otherwise the oldest
\* character goes to the data register and the get index advances.
write_tdr(u, tdr) ==
    IF u.tx_buf_get_idx = u.tx_buf_put_idx
    THEN [uart |-> [u EXCEPT !.txeie = FALSE], tdr |-> tdr]
    ELSE [uart |-> [u EXCEPT !.tx_buf_get_idx = (@ + 1) % UART_TX_BUF_SIZE],
          tdr |-> Append(tdr, u.tx_buf[u.tx_buf_get_idx])]

\* After uart_init (memset) and uart_start (TXE interrupt enabled); the
\* overrun counter starts anywhere, also at and just below saturation.
InitUart ==
    /\ reflow_ao = ReflowInit
    /\ time_events = <<>>
    /\ queue = <<>>
    /\ msg_count = 0
    /\ loop_pc = "none"
    /\ tick = TickIdle
    /\ pid_it = PidIdle
    /\ last = NoDispatch
    /\ hist = [cmds |-> 0, pidticks |-> 0]
    /\ obs \in {[uart |-> [tx_buf_get_idx |-> 0, tx_buf_put_idx |-> 0,
                           tx_buf |-> [i \in 0 .. UART_TX_BUF_SIZE - 1 |-> "0"],
                           txeie |-> TRUE],
                 tdr |-> <<>>, accepted |-> <<>>, ovr |-> n, ovr0 |-> n,
                 pc |-> "idle", c |-> "0", next |-> 0, ret |-> "MOD_OK",
                 full |-> FALSE, before |-> <<>>, calls |-> 0] :
                    n \in {0, 65534, 65535}}

UartFrame ==
    UNCHANGED <<reflow_ao, time_events, queue, msg_count, loop_pc, tick, pid_it,
                last, hist>>

\* uart_putc up to the full test: next_put_idx is computed and compared with
\* the get index; a full buffer counts an overrun and returns.
uart_putc_begin ==
    /\ obs.pc = "idle"
    /\ obs.calls < MaxPosts
    /\ \E c \in {"a", "b"} :
          LET u == obs.uart
              next == (u.tx_buf_put_idx + 1) % UART_TX_BUF_SIZE
              held == Len(TxPending(u)) = UART_TX_BUF_SIZE - 1
          IN  obs' = IF next = u.tx_buf_get_idx
                     THEN [obs EXCEPT !.ovr = INC_SAT_U16(@), !.ovr0 = obs.ovr,
                                      !.ret = "MOD_ERR_BUF_OVERRUN",
                                      !.full = held, !.before = <<u>>,
                                      !.c = c, !.calls = @ + 1]
                     ELSE [obs EXCEPT !.pc = "store", !.c = c, !.next = next,
                                      !.full = held, !.before = <<u>>,
                                      !.calls = @ + 1]
    /\ UartFrame

\* uart.tx_buf[uart.tx_buf_put_idx] = c;
uart_putc_store ==
    /\ obs.pc = "store"
    /\ obs' = [obs EXCEPT !.uart.tx_buf[obs.uart.tx_buf_put_idx] = obs.c,
                          !.pc = "idx"]
    /\ UartFrame

\* uart.tx_buf_put_idx = next_put_idx;
uart_putc_idx ==
    /\ obs.pc = "idx"
    /\ obs' = [obs EXCEPT !.uart.tx_buf_put_idx = obs.next,
                          !.accepted = Append(@, obs.c),
                          !.pc = "txe"]
    /\ UartFrame

\* if (... && !LL_USART_IsEnabledIT_TXE(...)): the enable bit is read.
uart_putc_txe ==
    /\ obs.pc = "txe"
    /\ obs' = IF obs.uart.txeie
              THEN [obs EXCEPT !.pc = "idle", !.ret = "MOD_OK"]
              ELSE [obs EXCEPT !.pc = "en"]
    /\ UartFrame

\* __disable_irq(); LL_USART_EnableIT_TXE(...); __enable_irq(); return MOD_OK;
uart_putc_en ==
    /\ obs.pc = "en"
    /\ obs' = [obs EXCEPT !.uart.txeie = TRUE, !.pc = "idle", !.ret = "MOD_OK"]
    /\ UartFrame

\* The handler entered for the TXE interrupt: the data register is empty
\* and the interrupt is enabled.
UART_ISR_txe ==
    /\ obs.uart.txeie
    /\ LET r == write_tdr(obs.uart, obs.tdr)
       IN  obs' = [obs EXCEPT !.uart = r.uart, !.tdr = r.tdr]
    /\ UartFrame

\* The handler entered for a receive interrupt while the TXE flag is set:
\* write_tdr runs although the TXE interrupt is disabled.
UART_ISR_rxne ==
    /\ ~obs.uart.txeie
    /\ LET r == write_tdr(obs.uart, obs.tdr)
       IN  obs' = [obs EXCEPT !.uart = r.uart, !.tdr = r.tdr]
    /\ UartFrame

NextUart ==
    \/ uart_putc_begin
    \/ uart_putc_store
    \/ uart_putc_idx
    \/ uart_putc_txe
    \/ uart_putc_en
    \/ UART_ISR_txe
    \/ UART_ISR_rxne

SpecUart == InitUart /\ [][NextUart]_vars

\* The thread runs on to the end of uart_putc, and an enabled TXE interrupt
\* is eventually taken (the data register empties after each character).
FairUart ==
    /\ SpecUart
    /\ WF_vars(uart_putc_store \/ uart_putc_idx \/ uart_putc_txe \/ uart_putc_en)
    /\ WF_vars(UART_ISR_txe)


----------------------------------------------------------------------------
(* Properties                                                              *)

\* C1: the event posted by the `stop` command carries the STOP signal, so
\* that when it is dispatched while the controller is in a phase (Preheat ..
\* Cooldown) the controller is in Reset afterwards.
C1_StopCmdResets ==
    (last.src = "reflow_stop_cmd" /\ last.prev \in Phases)
        => (last.sig = STOP_REFLOW_SIG /\ reflow_ao.state = RESET_STATE)

\* C2: dispatching STOP in any of Preheat .. Cooldown stops the PID sample
\* timer (the STOP cell's own osTimerStop comes first), leaves the state
\* Reset, reports a transition, and runs the Reset entry action once.
C2_StopFromPhase ==
    (last.sig = STOP_REFLOW_SIG /\ last.prev \in Phases)
        => /\ reflow_ao.state = RESET_STATE
           /\ last.stat = TRAN_STATUS
           /\ ~reflow_ao.pid_timer
           /\ last.calls # <<>> /\ last.calls[1] = "osTimerStop"
           /\ Cardinality({i \in 1 .. Len(last.calls) :
                               last.calls[i] = "Reflow_reset_ENTRY"}) = 1

\* C2 happens: STOP was dispatched in Peak, with the sample timer running
\* and the phase time event armed before it.
C2_Witness ==
    /\ last.sig = STOP_REFLOW_SIG
    /\ last.prev = PEAK_STATE
    /\ reflow_ao.state = RESET_STATE

\* C3: a sample tick whose sensor read failed posts a STOP event and
\* returns at once: no REACH_TEMP post, no setpoint step, no PID_Calculate,
\* no write of the actuator.
C3_FaultTickReturns ==
    ~pid_it.ok
        => /\ pid_it.pc = "done"
           /\ pid_it.posts # <<>>
           /\ \A i \in 1 .. Len(pid_it.posts) : pid_it.posts[i].sig = STOP_REFLOW_SIG
           /\ ~pid_it.ramped
           /\ ~pid_it.calc
           /\ ~pid_it.wrote

\* C4: a sensor fault during a sample tick aborts the run: once the event the
\* failed tick posted has been dispatched in a phase, the controller is in
\* Reset (from where START can begin a new run).
C4_FaultAbortsRun ==
    (last.src = "pid_fault" /\ last.prev \in Phases)
        => reflow_ao.state = RESET_STATE

\* C5: the events given to the handler, followed by those still in the
\* mailbox, are exactly the accepted posts in the order of acceptance:
\* nothing is reordered, dispatched twice or skipped, whichever producers
\* posted them.
C5_DispatchInPostOrder ==
    Delivered(obs.dispatched) \o queue = obs.accepted

\* C5 happens: events of three producers were dispatched while more waited.
C5_Witness ==
    /\ Len(Delivered(obs.dispatched)) >= 3
    /\ Cardinality({Delivered(obs.dispatched)[i].src :
                        i \in 1 .. Len(Delivered(obs.dispatched))}) = 3
    /\ queue # <<>>

\* C6: a post to a mailbox holding `capacity` events returns an error and
\* enqueues nothing, and the events that were queued then are dequeued
\* afterwards unchanged and in their order.
C6_FullPostRejected ==
    /\ obs.full => (obs.err = "MOD_ERR_TIMEOUT" /\ obs.before # <<>>)
    /\ obs.err # "MOD_OK" =>
          \A k \in 1 .. Len(obs.before) :
             LET d == Delivered(obs.dispatched)
             IN  IF obs.snapAt + k <= Len(d)
                 THEN d[obs.snapAt + k] = obs.before[k]
                 ELSE queue[obs.snapAt + k - Len(d)] = obs.before[k]

\* C6 happens: a post was refused by a full mailbox of capacity 2 or more,
\* and all the events it held have since been dispatched.
C6_Witness ==
    /\ obs.full /\ obs.err = "MOD_ERR_TIMEOUT"
    /\ msg_count >= 2
    /\ Len(obs.before) = msg_count
    /\ Len(Delivered(obs.dispatched)) >= obs.snapAt + msg_count

\* C7: the handler is given the INIT event exactly once, and before any
\* event of the mailbox, also when events were posted before the thread ran.
C7_InitOnceFirst ==
    LET d == obs.dispatched
    IN  /\ loop_pc = "wait" => d # <<>>
        /\ d # <<>> => d[1].evt = initEvt
        /\ \A i \in 2 .. Len(d) : d[i].evt # initEvt

\* C7 happens: an event posted before the event-loop thread first ran has
\* been dispatched.
C7_Witness ==
    \E i \in 2 .. Len(obs.dispatched) :
        /\ obs.dispatched[i].n <= obs.initAt
        /\ obs.dispatched[i].src \in Producers

\* C8: one-shot time event: after arm(T, 0) and n ticks with no arm or disarm
\* in between, the tick has posted nothing when n < T and exactly once when
\* n >= T, and after firing the countdown is 0.
C8_OneShot ==
    (obs.clean /\ obs.R = 0 /\ tick.pc = "idle")
        => /\ obs.posts = (IF obs.n < obs.T THEN 0 ELSE 1)
           /\ obs.n >= obs.T => time_events[1].timeout = 0

\* C8 happens: a one-shot armed with T >= 2 has fired and been ticked again.
C8_Witness ==
    /\ obs.clean /\ obs.R = 0 /\ tick.pc = "idle"
    /\ obs.T >= 2 /\ obs.n > obs.T /\ obs.posts = 1

\* C9: periodic time event: after arm(T, R), R >= 1, and n ticks with no arm
\* or disarm in between, the tick has posted nothing when n < T and
\* 1 + floor((n - T) / R) times when n >= T.
C9_Periodic ==
    (obs.clean /\ obs.R >= 1 /\ tick.pc = "idle")
        => obs.posts = (IF obs.n < obs.T THEN 0 ELSE 1 + (obs.n - obs.T) \div obs.R)

\* C9 happens: a periodic time event with R = 2 has fired three times.
C9_Witness ==
    /\ obs.clean /\ obs.R = 2 /\ tick.pc = "idle"
    /\ obs.T >= 2 /\ obs.posts = 3

\* C10: once TimeEvent_disarm has returned, no tick posts the event until it
\* is armed again, however the disarm interleaves with the heartbeat
\* callback; posts made earlier stay in the mailbox until dispatched.
C10_NoPostAfterDisarm ==
    /\ ~obs.late
    /\ obs.accepted = obs.delivered + Len(queue)

C12_StopInResetIgnored ==
    [][(SM_dispatch /\ reflow_ao.state = RESET_STATE /\ last'.sig = STOP_REFLOW_SIG)
          => /\ last'.stat = IGNORE_STATUS
             /\ last'.calls = <<>>
             /\ reflow_ao' = reflow_ao
             /\ time_events' = time_events]_vars

\* C12 happens: STOP was dispatched in Reset after the actor had started.
C12_Witness ==
    /\ last.sig = STOP_REFLOW_SIG /\ last.prev = RESET_STATE
    /\ loop_pc = "wait" /\ reflow_ao.state = RESET_STATE

\* C13: in Reset, START with a successful reading above the Cooldown target
\* (whole or fractional degrees) is refused: Handled, state Reset, no entry
\* action.
C13_StartRefusedWhenHot ==
    (/\ last.sig = START_REFLOW_SIG /\ last.prev = RESET_STATE
     /\ last.rd.err = MAX_OK
     /\ last.rd.hj > 4 * reflow_phases[COOLDOWN_STATE - 1].reach_temp)
        => /\ last.stat = HANDLED_STATUS
           /\ reflow_ao.state = RESET_STATE
           /\ last.calls = <<"readTemperature">>

\* C14: in Reset, START with a successful reading not above the Cooldown
\* target returns Transition into Preheat, and the Preheat entry action
\* starts the PWM output, sets the setpoint to the Preheat target and starts
\* the periodic sample timer with period Ts.
C14_StartEntersPreheat ==
    (/\ last.sig = START_REFLOW_SIG /\ last.prev = RESET_STATE
     /\ last.rd.err = MAX_OK
     /\ last.rd.hj <= 4 * reflow_phases[COOLDOWN_STATE - 1].reach_temp)
        => /\ last.stat = TRAN_STATUS
           /\ reflow_ao.state = PREHEAT_STATE
           /\ last.calls = <<"readTemperature", "Reflow_preheat_ENTRY",
                             "PWM_Start", "osTimerStart">>
           /\ reflow_ao.pwm_on
           /\ reflow_ao.setpoint = reflow_phases[PREHEAT_STATE - 1].reach_temp * SCALE
           /\ reflow_ao.pid_timer
           /\ reflow_ao.pid_period * pid_cfg.TsInv = 1000

\* C14 happens: START was dispatched in Reset with a reading of 30 C.
C14_Witness ==
    /\ last.sig = START_REFLOW_SIG /\ last.prev = RESET_STATE
    /\ last.rd = [err |-> MAX_OK, hj |-> 120]
    /\ reflow_ao.state = PREHEAT_STATE

\* C15: in Reset, START when the sensor read fails returns Handled with no
\* transition: the state stays Reset, no entry action runs, the actuator
\* output stays disabled and the sample timer stays stopped.
C15_StartRefusedOnFault ==
    (/\ last.sig = START_REFLOW_SIG /\ last.prev = RESET_STATE
     /\ last.rd.err # MAX_OK)
        => /\ last.stat = HANDLED_STATUS
           /\ reflow_ao.state = RESET_STATE
           /\ last.calls = <<"readTemperature">>
           /\ ~reflow_ao.pwm_on
           /\ ~reflow_ao.pid_timer

\* C15 happens: START was dispatched in Reset while the thermocouple was open.
C15_Witness ==
    /\ last.sig = START_REFLOW_SIG /\ last.prev = RESET_STATE
    /\ last.rd.err = MAX_OPEN
    /\ loop_pc = "wait"

\* C16: every dispatch that enters Reset (the initial transition, Cooldown
\* completion, and STOP applied to the actor in any phase) runs the Reset
\* entry action once and ends with the actuator duty 0 and PWM stopped, the
\* PID memory cleared, the sample timer stopped and the phase time event's
\* countdown 0; running the entry action again from there changes nothing.
C16_ResetEntrySafe ==
    [][LET Safe(ao, te, calls) ==
               /\ ao.state = RESET_STATE
               /\ Cardinality({i \in 1 .. Len(calls) :
                                   calls[i] = "Reflow_reset_ENTRY"}) = 1
               /\ ao.ccr = 0 /\ ~ao.pwm_on
               /\ ao.pid = PID_Cleared
               /\ ~ao.pid_timer
               /\ te[1].timeout = 0
               /\ LET again == Reflow_reset_ENTRY(ao, [err |-> MAX_OK, hj |-> 0])
                  IN  again.ao = ao /\ ApplyTE(te, again.te) = te
           stop == reflow_evt_handler(reflow_ao, STOP_REFLOW_SIG,
                                      [err |-> MAX_OK, hj |-> 0])
       IN  /\ (Reflow_dispatch /\ last'.stat \in {TRAN_STATUS, INIT_STATUS}
                   /\ reflow_ao'.state = RESET_STATE)
                  => Safe(reflow_ao', time_events', last'.calls)
           /\ reflow_ao.state \in Phases
                  => Safe(stop.ao, ApplyTE(time_events, stop.te), stop.calls)]_vars

\* C16 happens: Cooldown completed into Reset after the PID controller had
\* run (its memory held the error of the last sample before the entry).
C16_Witness ==
    /\ last.prev = COOLDOWN_STATE /\ last.stat = TRAN_STATUS
    /\ reflow_ao.state = RESET_STATE
    /\ pid_it.calc /\ pid_it.pc = "done"
    /\ reflow_ao.pid = PID_Cleared

\* C17: the reflow state changes only when an event is dispatched, and only
\* along Reset -> Preheat on START, Preheat -> Soak, RampUp -> Peak and
\* Cooldown -> Reset on REACH_TEMP, Soak -> RampUp and Peak -> Cooldown on
\* REACH_TIME, and any phase -> Reset on STOP; every other pair of state and
\* signal leaves the state as it is.
C17_TransitionsInOrder ==
    [][reflow_ao'.state # reflow_ao.state
          => /\ SM_dispatch \/ SM_init
             /\ <<reflow_ao.state, last'.sig, reflow_ao'.state>> \in
                   {<<RESET_STATE, START_REFLOW_SIG, PREHEAT_STATE>>,
                    <<PREHEAT_STATE, REACH_TEMP_SIG, SOAK_STATE>>,
                    <<SOAK_STATE, REACH_TIME_SIG, RAMPUP_STATE>>,
                    <<RAMPUP_STATE, REACH_TEMP_SIG, PEAK_STATE>>,
                    <<PEAK_STATE, REACH_TIME_SIG, COOLDOWN_STATE>>,
                    <<COOLDOWN_STATE, REACH_TEMP_SIG, RESET_STATE>>}
                   \cup {<<p, STOP_REFLOW_SIG, RESET_STATE>> : p \in Phases}]_vars

\* C17 happens: the last edge of a run, Cooldown -> Reset on REACH_TEMP, was
\* taken.
C17_Witness ==
    /\ last.prev = COOLDOWN_STATE /\ last.sig = REACH_TEMP_SIG
    /\ reflow_ao.state = RESET_STATE
    /\ last.src = "any"

\* C18: on a sample tick with a successful read in a phase of kind
\* REACHTEMP, REACH_TEMP is posted exactly when the reading is within one
\* degree of the phase target (|r - target| <= 1), for every reading.
C18_BandSymmetric ==
    (/\ pid_it.pc = "calc" /\ pid_it.ok
     /\ pid_it.inphase \in Phases /\ reflow_ao.state = pid_it.inphase
     /\ reflow_phases[pid_it.inphase - 1].phase_type = REACHTEMP)
        => LET target == 4 * reflow_phases[pid_it.inphase - 1].reach_temp
               inband == pid_it.hj - target <= 4 /\ target - pid_it.hj <= 4
           IN  (pid_it.posts = <<reachtemp_evt>>) <=> inband

\* C19: the dispatch that enters Soak leaves the ramp step at
\* (Soak target - Preheat target) / (Soak duration in seconds / Ts), which is
\* 55/240 degrees per sample, and the phase time event armed as a one-shot
\* for the Soak duration; the dispatch that enters Peak leaves the step 0 and
\* the time event armed as a one-shot for the Peak duration.
C19_SoakPeakEntry ==
    [][((SM_dispatch \/ SM_init) /\ reflow_ao'.state # reflow_ao.state)
          => /\ reflow_ao'.state = SOAK_STATE =>
                  /\ reflow_ao'.step_size
                        * ((reflow_phases[SOAK_STATE - 1].reach_time \div 1000)
                           * pid_cfg.TsInv)
                     = (reflow_phases[SOAK_STATE - 1].reach_temp
                        - reflow_phases[PREHEAT_STATE - 1].reach_temp) * SCALE
                  /\ 240 * reflow_ao'.step_size = 55 * SCALE
                  /\ time_events'[1].timeout = reflow_phases[SOAK_STATE - 1].reach_time
                  /\ time_events'[1].reload = 0
             /\ reflow_ao'.state = PEAK_STATE =>
                  /\ reflow_ao'.step_size = 0
                  /\ time_events'[1].timeout = reflow_phases[PEAK_STATE - 1].reach_time
                  /\ time_events'[1].reload = 0]_vars

\* C19 happens: Peak was entered from RampUp, after Soak had set a nonzero
\* step, and its one-shot is counting down.
C19_Witness ==
    /\ last.prev = RAMPUP_STATE /\ reflow_ao.state = PEAK_STATE
    /\ reflow_ao.step_size = 0
    /\ time_events[1].timeout > 0 /\ time_events[1].reload = 0

\* C20: Active_ctor given a null handler returns the argument error and
\* leaves the actor as it was (its handler field included); given an actor
\* and a handler it binds the handler and returns success, and creates
\* neither thread nor mailbox.
C20_CtorChecksHandler ==
    [][AO_ctor
          => LET c == obs'.ctor
                 old == reflow_ao.reflow_base
                 new == reflow_ao'.reflow_base
             IN  /\ c.h = "NULL" => (c.err = "MOD_ERR_ARG" /\ new = old)
                 /\ (c.h # "NULL" /\ c.ao # "NULL") =>
                       /\ c.err = "MOD_OK"
                       /\ new.evt_handler = c.h
                       /\ new.thread_id = "NULL" /\ new.queue_id = "NULL"
                       /\ loop_pc' = "none" /\ msg_count' = 0 /\ queue' = <<>>]_vars

\* C20 happens: the constructor refused a null handler for an actor whose
\* handler had been bound by an earlier call, and the binding is still there.
C20_Witness ==
    /\ obs.ctor = [ao |-> "ao", h |-> "NULL", err |-> "MOD_ERR_ARG"]
    /\ reflow_ao.reflow_base.evt_handler = "other_handler"
    /\ loop_pc = "none"

\* C21: a failed Active_start is never partial: whenever the mailbox
\* allocation has failed, the event-loop thread does not exist or cannot run
\* (threads are not being scheduled, or the failed assertion has stopped
\* the system).
C21_NoPartialStart ==
    (obs.pc \in {"queue", "ok", "err", "fatal"} /\ reflow_ao.reflow_base.queue_id = "NULL")
        => ~LoopCanRun

\* C22: the time-event registry never holds more than 10 records: after any
\* sequence of TimeEvent_ctor calls num_time_events <= 10 and every slot
\* below it refers to a constructed record; a call made when the registry
\* is full is a fatal assertion and registers nothing.
C22_RegistryBounded ==
    /\ obs.num_time_events <= 10
    /\ Len(time_events) = obs.num_time_events
    /\ \A i \in 1 .. obs.num_time_events :
          /\ time_events[i].sig \in {REACH_TIME_SIG, REACH_TEMP_SIG}
          /\ time_events[i].timeout = 0
          /\ time_events[i].reload = 0
    /\ obs.full => (obs.fatal /\ time_events = obs.before)

\* A call was made with all ten slots taken.
C22_Witness ==
    obs.full /\ obs.fatal /\ obs.num_time_events = 10

\* C23: a malformed reflow command (wrong argument count or unknown
\* keyword; get takes one keyword, start and stop take no argument) returns
\* a nonzero status and posts no event, so it changes no reflow state.
C23_MalformedRejected ==
    LET malformed ==
            \/ obs.cmd = "get"
               /\ (obs.argc # 1 \/ obs.argv0 \notin {"*", "pid", "PID", "profile", "state"})
            \/ obs.cmd \in {"start", "stop"} /\ obs.argc # 0
    IN  malformed => (obs.ret # 0 /\ ~obs.posted)

\* C24: under fair scheduling of the event-loop thread every accepted event
\* is eventually given to the handler: for each post number, once the post
\* has been accepted it is eventually among the dispatched events.
C24_AcceptedDispatched ==
    \A n \in 1 .. MaxPosts :
        (\E i \in 1 .. Len(obs.accepted) : obs.accepted[i].n = n)
            ~> (\E j \in 1 .. Len(obs.dispatched) :
                    obs.dispatched[j].n = n /\ obs.dispatched[j].src \in Producers)

\* C24 happens: a mailbox was filled to its capacity of two or more and every
\* event accepted has been dispatched.
C24_Witness ==
    /\ queue = <<>>
    /\ msg_count >= 2
    /\ Len(obs.accepted) >= msg_count
    /\ Len(Delivered(obs.dispatched)) = Len(obs.accepted)

\* C25: anti-windup: a PID_Calculate call that finds the stored output equal
\* to out_max or out_min and an error of the output's sign (both positive,
\* or both not positive) leaves the integral as it was, call after call;
\* any other call adds 0.5 * Ki * Ts * (error + prev_error) to it.
C25_AntiWindup ==
    hist.pidticks > 0 =>
        IF obs.pinned
        THEN reflow_ao.pid.integral = obs.before.integral
        ELSE reflow_ao.pid.integral
                = obs.before.integral
                  + (obs.cfg.Ki * (obs.error + obs.before.prev_error)) \div (2 * obs.cfg.TsInv)

\* C25 happens: with a nonzero integral gain, two calls in a row found the
\* output pinned at out_max, and the second would have changed the integral.
C25_Witness ==
    /\ obs.run >= 2
    /\ obs.cfg.Ki # 0
    /\ obs.before.out = obs.cfg.out_max
    /\ obs.error + obs.before.prev_error # 0

\* C26: an event handed to a mailbox is not mutated until it has been
\* processed: every command event the handler is given carries the command
\* line it was posted with.
C26_EventNotMutated ==
    \A i \in 1 .. Len(obs.processed) :
        obs.processed[i].line = obs.posted[obs.processed[i].n]

\* C27: the heartbeat's decrement / test / post / reload sequence on a time
\* event and TimeEvent_arm / TimeEvent_disarm exclude each other: no arm or
\* disarm takes effect while the callback is between its test of the
\* countdown and the end of its sequence on that record.
C27_TickExclusive ==
    [][(TE_arm \/ TE_disarm) => tick.pc \notin {"dec", "chk", "post", "rld"}]_vars

\* C28: the reflow actor's private data (current state, setpoint, step size,
\* PID controller memory) is written only by the event-loop thread, while it
\* dispatches an event; the PID timer callback reaches it only by posting.
C28_ActorIsolation ==
    [][(\/ reflow_ao'.state # reflow_ao.state
        \/ reflow_ao'.setpoint # reflow_ao.setpoint
        \/ reflow_ao'.step_size # reflow_ao.step_size
        \/ reflow_ao'.pid # reflow_ao.pid) => Reflow_dispatch]_vars

C30_FaultDecoded ==
    obs.reads > 0 =>
        LET d16 == (obs.data32 \div 65536) % 2 = 1
            fault == obs.data32 % 8
        IN  /\ obs.data32 = 0 => obs.err = MAX_ZEROS
            /\ (d16 /\ fault \div 4 = 1) => obs.err = MAX_SHORT_VCC
            /\ (d16 /\ fault \div 4 = 0 /\ (fault \div 2) % 2 = 1) => obs.err = MAX_SHORT_GND
            /\ (d16 /\ fault = 1) => obs.err = MAX_OPEN
            /\ (obs.data32 # 0 /\ ~d16) => obs.err = MAX_OK

\* C31: the characters written to the data register, followed by those
\* between the get and the put index, are exactly the characters uart_putc
\* accepted, in order, under every interleaving with the interrupt handler;
\* a call that finds UART_TX_BUF_SIZE - 1 characters held returns
\* MOD_ERR_BUF_OVERRUN, adds one to the overrun counter unless it is
\* saturated, and leaves the put index and the buffer as they were.
C31_TxRingInOrder ==
    /\ obs.tdr \o TxPending(obs.uart) = obs.accepted
    /\ (obs.full /\ obs.pc = "idle") =>
          /\ obs.ret = "MOD_ERR_BUF_OVERRUN"
          /\ obs.ovr = (IF obs.ovr0 = 65535 THEN 65535 ELSE obs.ovr0 + 1)
          /\ obs.uart.tx_buf_put_idx = obs.before[1].tx_buf_put_idx
          /\ obs.uart.tx_buf = obs.before[1].tx_buf

\* C31 happens: a call was refused by a full buffer with the counter
\* saturated, and the characters held then have since been written.
C31_Witness ==
    /\ obs.full /\ obs.pc = "idle" /\ obs.ovr0 = 65535
    /\ Len(obs.tdr) >= UART_TX_BUF_SIZE
    /\ TxPending(obs.uart) = <<>>

\* C40: whenever uart_putc is not executing and the transmit buffer is not
\* empty, the TXE interrupt is enabled; and with the interrupt taken
\* whenever it is enabled, every accepted character is eventually written
\* to the data register.
C40_TxEventuallyWritten ==
    /\ []((obs.pc = "idle" /\ TxPending(obs.uart) # <<>>) => obs.uart.txeie)
    /\ \A n \in 1 .. MaxPosts :
          (Len(obs.accepted) >= n) ~> (Len(obs.tdr) >= n)

\* C40 happens: the handler had disabled the TXE interrupt on an empty
\* buffer, and a character put afterwards has been written.
C40_Witness ==
    /\ obs.pc = "idle" /\ obs.uart.txeie
    /\ obs.ret = "MOD_OK" /\ obs.before # <<>> /\ ~obs.before[1].txeie
    /\ Len(obs.tdr) = Len(obs.accepted) /\ Len(obs.tdr) >= 2

\* C32: wherever reflow_pid_iteration is about to index
\* reflow_phases[state - 1] (the phase-type test and the band test), the
\* state is one of Preheat .. Cooldown.
C32_PhaseIndexInBounds ==
    pid_it.pc \in {"phase", "band"} => reflow_ao.state \in Phases

\* C33: while the actor rests in Reset with its Reset entry action completed,
\* the actuator command (the timer's compare value) is zero, also when a PID
\* sample tick was in flight when the run ended.
C33_ActuatorZeroInReset ==
    (reflow_ao.state = RESET_STATE /\ loop_pc = "wait") => reflow_ao.ccr = 0

\* C34: whenever no reflow handler is executing (the event loop waits on its
\* mailbox, or has not yet dispatched INIT), the periodic PID sample timer
\* is running if and only if the state is not Reset.
C34_SampleTimerIffRunning ==
    reflow_ao.pid_timer <=> reflow_ao.state # RESET_STATE

\* C34 happens: a run was stopped from a phase and the sample timer, running
\* until then, is stopped.
C34_Witness ==
    /\ last.stat = TRAN_STATUS /\ last.sig = STOP_REFLOW_SIG
    /\ last.prev = SOAK_STATE /\ reflow_ao.state = RESET_STATE
    /\ ~reflow_ao.pid_timer

\* C35: a temperature-gated phase is left for the next phase (Preheat to
\* Soak, RampUp to Peak, Cooldown to Reset as a completed run) only by the
\* REACH_TEMP event that a sample tick posted on a reading inside the
\* band: never by an operator command and never by a sensor fault.
C35_AdvanceOnlyOnMeasurement ==
    (/\ last.stat = TRAN_STATUS
     /\ last.sig = REACH_TEMP_SIG
     /\ last.prev \in {PREHEAT_STATE, RAMPUP_STATE, COOLDOWN_STATE})
        => last.src = "pid_band"

\* C36: a time-gated phase can always end: while the actor rests in Soak or
\* Peak and the heartbeat callback is idle, either the phase's one-shot is
\* still counting or its REACH_TIME event is in the mailbox.
C36_TimedPhaseEnds ==
    (/\ reflow_ao.state \in {SOAK_STATE, PEAK_STATE}
     /\ loop_pc = "wait" /\ tick.pc = "idle")
        => \/ time_events[1].timeout > 0
           \/ \E i \in 1 .. Len(queue) : queue[i].evt.sig = REACH_TIME_SIG

\* C37: an arm is never lost: when the heartbeat callback has finished its
\* pass over a record that was armed with T >= 1 while the callback was
\* working on it and no further tick has begun, the countdown is T (or T
\* less that one tick) and the reload value is the R of the arm.
C37_ArmNotLost ==
    (/\ ~obs.disarmed /\ ~obs.clean
     /\ tick.pc = "idle"
     /\ obs.n = 0)
        => /\ time_events[1].timeout \in {obs.T, obs.T - 1}
           /\ time_events[1].reload = obs.R

\* C38: the event loop gives the handler only event references it dequeued
\* from the mailbox (or the INIT event): no handler invocation is made with
\* the event pointer a failed receive left unset.
C38_DispatchOnlyDequeued ==
    \A i \in 1 .. Len(obs.dispatched) : obs.dispatched[i].src # "unset"

\* C39: whenever the word read has its fault bit D16 set, the decoder leaves
\* an error value different from MAX_OK, whatever the three fault bits and
\* whatever the error value of the previous reading.
C39_FaultNeverOK ==
    (obs.reads > 0 /\ (obs.data32 \div 2 ^ 16) % 2 = 1) => obs.err # MAX_OK

====
